---- MODULE Spec2Model ----
(***************************************************************************)
(* Verification model of the calibration subsystem of the options puller:  *)
(* OutputValidator (src/src/output_validator.py), ParameterRefiner         *)
(* (src/src/parameter_refiner.py), the parameter interface of              *)
(* OptionGenerator (src/src/option_generator.py) and the feedback loop of  *)
(* src/archive/main.py; and of the data side of the puller: the trading    *)
(* calendar (src/utils/date_utils.py), FuturesManager                      *)
(* (src/src/futures_manager.py), OptionsManager                            *)
(* (src/src/options_manager.py), DatabentoBridge                           *)
(* (src/src/databento_client.py) and the command line of                   *)
(* src/databento_options_puller.py.                                        *)
(*                                                                         *)
(* Scores are Python floats in the code.  They are modelled as exact       *)
(* rationals <<n, d>> in lowest terms; every comparison the code makes     *)
(* (< 1.0, >= threshold, > best_score) is made on the exact value.  The    *)
(* weighted sum of six scores of 1.0 is exactly 1.0 in IEEE doubles as     *)
(* well, so "== 1.0" means the same in both.                               *)
(***************************************************************************)
EXTENDS Integers, Sequences, FiniteSets, TLC

VARIABLES
    \* ---- OutputValidator -------------------------------------------------
    expected,            \* self.expected: the reference table
    validation_results,  \* self.validation_results: results of the last validate
    \* ---- OptionGenerator -------------------------------------------------
    params,              \* self.params
    \* ---- ParameterRefiner ------------------------------------------------
    refiner,             \* iteration_count, best_score, best_params, stuck_count, patience
    history,             \* self.history
    heap,                \* the period_adjustments dicts that parameter dicts refer to
    \* ---- main() of src/archive/main.py -----------------------------------
    pc,                  \* position in main()
    max_iterations,      \* args.max_iterations
    success_threshold,   \* config['feedback_loop']['convergence_threshold']
    iteration,           \* loop variable
    generated,           \* the table of the current iteration / last call
    results,             \* the results returned by the last validate call
    best_score,          \* main's best_score
    best_iteration,      \* main's best_iteration
    files,               \* the output directory
    summary,             \* what the final summary logged
    \* ---- FuturesManager / OptionsManager ----------------------------------
    root_symbol,         \* FuturesManager.root_symbol, a string of characters
    trade_date,          \* the date get_front_month_contract was last asked for
    front_month,         \* the contract it returned
    start_date,          \* start of the requested period
    end_date,            \* end of the requested period
    current_year,        \* loop variable of get_roll_schedule
    current_month,       \* loop variable of get_roll_schedule
    roll_schedule,       \* the list get_roll_schedule builds and returns
    roll_index,          \* position of identify_monthly_options in roll_schedule
    selected_options,    \* the list identify_monthly_options builds and returns
    options_cache,       \* OptionsManager.options_cache
    spot_price_cache,    \* OptionsManager.spot_price_cache
    \* ---- DatabentoBridge -------------------------------------------------
    bridge,              \* the fields of the bridge object
    clock,               \* time.time(), in milliseconds
    http_log,            \* the requests sent over bridge.session, oldest first
    \* ---- command line (src/databento_options_puller.py) ------------------
    args,                \* the command line as argparse sees it
    environ,             \* os.environ['DATABENTO_API_KEY'], or NONE
    exit_code,           \* the exit status of the process, NONE while running
    effects,             \* what the run has done so far
    all_option_data,     \* run_data_pull: the histories fetched, by symbol
    output_table,        \* run_data_pull: df, the table that is written
    \* ---- observation of the last call ------------------------------------
    call                 \* record describing the last operation performed

\* the variables of the futures and options managers
managerVars == <<root_symbol, trade_date, front_month, start_date, end_date,
                 current_year, current_month, roll_schedule, roll_index,
                 selected_options, options_cache, spot_price_cache>>

\* the variables of the bridge
bridgeVars == <<bridge, clock, http_log>>

\* the variables of the command line
cliVars == <<args, environ, exit_code, effects, all_option_data, output_table>>

\* the variables of the calibration subsystem
calibrationVars == <<expected, validation_results, params, refiner, history,
                     heap, max_iterations, success_threshold, iteration,
                     generated, results, best_score, best_iteration, files,
                     summary>>

vars == <<expected, validation_results, params, refiner, history, heap, pc,
          max_iterations, success_threshold, iteration, generated, results,
          best_score, best_iteration, files, summary, root_symbol, trade_date,
          front_month, start_date, end_date, current_year, current_month,
          roll_schedule, roll_index, selected_options, options_cache,
          spot_price_cache, bridge, clock, http_log,
          args, environ, exit_code, effects, all_option_data, output_table,
          call>>

(***************************************************************************)
(* Bounds                                                                  *)
(***************************************************************************)
MaxRows == 2
MaxCalls == 4
MaxPatience == 2
MaxIterations == 13

(***************************************************************************)
(* Generic helpers                                                         *)
(***************************************************************************)
NONE == "None"

\* no futures or options manager has been constructed
ManagersIdle ==
    /\ root_symbol = NONE
    /\ trade_date = NONE
    /\ front_month = NONE
    /\ start_date = NONE
    /\ end_date = NONE
    /\ current_year = NONE
    /\ current_month = NONE
    /\ roll_schedule = <<>>
    /\ roll_index = 0
    /\ selected_options = <<>>
    /\ options_cache = <<>>
    /\ spot_price_cache = <<>>

\* no bridge has been constructed
BridgeIdle ==
    /\ bridge = NONE
    /\ clock = 0
    /\ http_log = <<>>

\* the command line has not been started
CliIdle ==
    /\ args = NONE
    /\ environ = NONE
    /\ exit_code = NONE
    /\ effects = NONE
    /\ all_option_data = <<>>
    /\ output_table = <<>>

Range(s) == {s[i] : i \in 1..Len(s)}

Min(a, b) == IF a <= b THEN a ELSE b

Max(a, b) == IF a >= b THEN a ELSE b

Abs(a) == IF a < 0 THEN -a ELSE a

Take(s, n) == SubSeq(s, 1, Min(n, Len(s)))

RECURSIVE GCD(_, _)
GCD(a, b) == IF b = 0 THEN a ELSE GCD(b, a % b)

\* exact value n/d of a float, d > 0, in lowest terms
Rat(n, d) == LET g == GCD(Abs(n), d) IN <<n \div g, d \div g>>

Zero == <<0, 1>>

One == <<1, 1>>

RAdd(x, y) == Rat(x[1] * y[2] + y[1] * x[2], x[2] * y[2])

RMul(x, y) == Rat(x[1] * y[1], x[2] * y[2])

RLt(x, y) == x[1] * y[2] < y[1] * x[2]

RLe(x, y) == x[1] * y[2] <= y[1] * x[2]

RMin(x, y) == IF RLe(x, y) THEN x ELSE y

RECURSIVE RSum(_)
RSum(s) == IF s = <<>> THEN Zero ELSE RAdd(Head(s), RSum(Tail(s)))

\* the elements of sequence s that satisfy Test, in order
RECURSIVE SelectSeqIn(_, _)
SelectSeqIn(s, S) ==
    IF s = <<>> THEN <<>>
    ELSE IF Head(s) \in S THEN <<Head(s)>> \o SelectSeqIn(Tail(s), S)
    ELSE SelectSeqIn(Tail(s), S)

(***************************************************************************)
(* Tables (pandas DataFrames with a RangeIndex).                           *)
(*   columns : the column names in order                                   *)
(*   n       : the number of rows; row labels are 0 .. n-1                 *)
(*   data    : data[c][i+1] is the cell of column c in the row labelled i  *)
(* A price is an integer number of hundredths; NaN is the empty cell.      *)
(* A timestamp is a string, kept as a sequence of characters.              *)
(***************************************************************************)
NaN == -1

notna(v) == v # NaN

NonOptionColumns == {"timestamp", "Futures_Price"}

HasColumn(df, c) == c \in Range(df.columns)

\* [col for col in df.columns if col not in ['timestamp', 'Futures_Price']]
OptionColumns(df) == SelectSeqIn(df.columns, Range(df.columns) \ NonOptionColumns)

\* the row labelled i as a tuple, in column order
RowTuple(df, i) == [k \in 1..Len(df.columns) |-> df.data[df.columns[k]][i + 1]]

Labels(df) == 0..(df.n - 1)

(***************************************************************************)
(* Python dictionaries.  A dict is a function from its keys; d.get(k, v)   *)
(* is Get(d, k, v).  EmptyDict is {}.                                      *)
(***************************************************************************)
EmptyDict == [k \in {} |-> NONE]

Get(d, k, default) == IF k \in DOMAIN d THEN d[k] ELSE default

\* the value None where the code holds a row label
NoneIdx == -1

(***************************************************************************)
(* OutputValidator                                                         *)
(***************************************************************************)
_validate_columns(exp, gen) ==
    LET expected_cols == exp.columns
        generated_cols == gen.columns
        missing_cols == Range(expected_cols) \ Range(generated_cols)
        extra_cols == Range(generated_cols) \ Range(expected_cols)
        common_cols == SelectSeqIn(generated_cols, Range(expected_cols))
        order_match == common_cols = SelectSeqIn(expected_cols, Range(common_cols))
    IN [missing_columns |-> SelectSeqIn(expected_cols, missing_cols),
        extra_columns |-> SelectSeqIn(generated_cols, extra_cols),
        order_matches |-> order_match,
        score |-> IF missing_cols = {} /\ extra_cols = {} /\ order_match
                  THEN One ELSE Zero]

\* the mismatching positions of zip(expected_dates, generated_dates[:len(expected_dates)])
RECURSIVE DateMismatches(_, _, _)
DateMismatches(expected_dates, generated_dates, i) ==
    IF i > Min(Len(expected_dates), Len(generated_dates)) THEN <<>>
    ELSE (IF expected_dates[i] # generated_dates[i]
          THEN <<[index |-> i - 1, expected |-> expected_dates[i],
                  generated |-> generated_dates[i]]>>
          ELSE <<>>) \o DateMismatches(expected_dates, generated_dates, i + 1)

_validate_dates(exp, gen) ==
    IF ~HasColumn(gen, "timestamp")
    THEN [score |-> Zero, error |-> "No timestamp column"]
    ELSE LET expected_dates == exp.data["timestamp"]
             generated_dates == gen.data["timestamp"]
             len_match == Len(expected_dates) = Len(generated_dates)
             dates_match == expected_dates = Take(generated_dates, Len(expected_dates))
             mismatches == DateMismatches(expected_dates, generated_dates, 1)
         IN [expected_count |-> Len(expected_dates),
             generated_count |-> Len(generated_dates),
             length_matches |-> len_match,
             dates_match |-> dates_match,
             mismatches |-> Take(mismatches, 10),
             \* len([m for m in mismatches if m == []]) is 0: a mismatch is a dict
             score |-> IF dates_match /\ len_match THEN One
                       ELSE Rat(0, Len(expected_dates))]

_validate_symbols(exp, gen) ==
    LET expected_symbols == OptionColumns(exp)
        generated_symbols == OptionColumns(gen)
        missing_symbols == Range(expected_symbols) \ Range(generated_symbols)
        extra_symbols == Range(generated_symbols) \ Range(expected_symbols)
        matching_symbols == Range(expected_symbols) \cap Range(generated_symbols)
    IN [expected_symbols |-> expected_symbols,
        generated_symbols |-> generated_symbols,
        missing_symbols |-> SelectSeqIn(expected_symbols, missing_symbols),
        extra_symbols |-> SelectSeqIn(generated_symbols, extra_symbols),
        matching_symbols |-> SelectSeqIn(expected_symbols, matching_symbols),
        score |-> IF expected_symbols # <<>>
                  THEN Rat(Cardinality(matching_symbols), Len(expected_symbols))
                  ELSE Zero]

SetMin(S) == CHOOSE x \in S : \A y \in S : x <= y

SetMax(S) == CHOOSE x \in S : \A y \in S : x >= y

\* the labels below min_len at which column symbol of df is not null
ActiveLabels(df, symbol, min_len) ==
    {i \in 0..(min_len - 1) : notna(df.data[symbol][i + 1])}

\* one entry of period_validations
PeriodValidation(exp, gen, symbol) ==
    IF ~HasColumn(gen, symbol)
    THEN [status |-> "missing", score |-> Zero]
    ELSE LET min_len == Min(exp.n, gen.n)
             exp_active == ActiveLabels(exp, symbol, min_len)
             gen_active == ActiveLabels(gen, symbol, min_len)
             \* idxmax() is the label of the first True; on the reversed
             \* series it is the label of the last True
             exp_first == IF exp_active # {} THEN SetMin(exp_active) ELSE NoneIdx
             exp_last == IF exp_active # {} THEN min_len - 1 - SetMax(exp_active) ELSE NoneIdx
             gen_first == IF gen_active # {} THEN SetMin(gen_active) ELSE NoneIdx
             gen_last == IF gen_active # {} THEN min_len - 1 - SetMax(gen_active) ELSE NoneIdx
             overlap_start == Max(exp_first, gen_first)
             overlap_end == Min(exp_last, gen_last)
             overlap_days == overlap_end - overlap_start + 1
             total_days == Max(exp_last - exp_first + 1, gen_last - gen_first + 1)
             overlap_score ==
                 IF exp_first # NoneIdx /\ gen_first # NoneIdx
                 THEN IF overlap_start <= overlap_end
                      THEN (IF total_days > 0 THEN Rat(overlap_days, total_days) ELSE Zero)
                      ELSE Zero
                 ELSE Zero
         IN [expected_first |-> exp_first,
             expected_last |-> exp_last,
             generated_first |-> gen_first,
             generated_last |-> gen_last,
             first_match |-> exp_first = gen_first,
             last_match |-> exp_last = gen_last,
             overlap_score |-> overlap_score,
             score |-> overlap_score]

\* sum(scores) / len(scores) if scores else 0.0
Mean(scores) ==
    IF scores = <<>> THEN Zero ELSE RMul(RSum(scores), Rat(1, Len(scores)))

\* period_validations is an insertion-ordered dict: a sequence of
\* [symbol, v] entries in the order of the reference's option columns
_validate_active_periods(exp, gen) ==
    LET symbols == OptionColumns(exp)
        period_validations ==
            [k \in 1..Len(symbols) |->
                [symbol |-> symbols[k], v |-> PeriodValidation(exp, gen, symbols[k])]]
        scores == [k \in 1..Len(symbols) |-> period_validations[k].v.score]
    IN [period_validations |-> period_validations,
        score |-> Mean(scores)]

\* abs(exp_val - gen_val) <= tolerance, in hundredths
tolerance == 1

\* one entry of value_validations
ValueValidation(exp, gen, symbol) ==
    IF ~HasColumn(gen, symbol)
    THEN [status |-> "missing", score |-> Zero]
    ELSE LET exp_index == {i \in Labels(exp) : notna(exp.data[symbol][i + 1])}
             gen_index == {i \in Labels(gen) : notna(gen.data[symbol][i + 1])}
             compared == {idx \in exp_index :
                             idx < gen.n /\ notna(gen.data[symbol][idx + 1])}
             matching == {idx \in compared :
                             Abs(exp.data[symbol][idx + 1] - gen.data[symbol][idx + 1])
                                 <= tolerance}
             value_matches == Cardinality(matching)
             total_comparisons == Cardinality(compared)
             count_ratio == Rat(Cardinality(gen_index), Cardinality(exp_index))
             value_score == IF total_comparisons > 0
                            THEN Rat(value_matches, total_comparisons) ELSE Zero
         IN IF exp_index = {}
            THEN [status |-> "no_expected_values", score |-> Zero]
            ELSE [expected_count |-> Cardinality(exp_index),
                  generated_count |-> Cardinality(gen_index),
                  count_ratio |-> count_ratio,
                  value_matches |-> value_matches,
                  total_comparisons |-> total_comparisons,
                  value_score |-> value_score,
                  score |-> RMul(value_score, RMin(count_ratio, One))]

_validate_values(exp, gen) ==
    LET symbols == OptionColumns(exp)
        value_validations ==
            [k \in 1..Len(symbols) |->
                [symbol |-> symbols[k], v |-> ValueValidation(exp, gen, symbols[k])]]
        present == SelectSeq(value_validations,
                             LAMBDA e : Get(e.v, "status", NONE) # "missing")
        scores == [k \in 1..Len(present) |-> present[k].v.score]
    IN [value_validations |-> value_validations,
        score |-> Mean(scores)]

\* a table of this model has distinct column names, so no_duplicate_columns
\* is the comparison the code makes on them
_validate_structure(exp, gen) ==
    LET checks ==
            [shape_matches |-> exp.n = gen.n /\ Len(exp.columns) = Len(gen.columns),
             has_timestamp |-> HasColumn(gen, "timestamp"),
             no_duplicate_columns |-> Len(gen.columns) = Cardinality(Range(gen.columns)),
             no_duplicate_rows |->
                 \A i, j \in Labels(gen) : RowTuple(gen, i) = RowTuple(gen, j) => i = j]
    IN [checks |-> checks,
        score |-> Rat(Cardinality({c \in DOMAIN checks : checks[c]}), 4)]

\* errors[:20]
MaxErrors == 20

RECURSIVE PeriodErrors(_)
PeriodErrors(period_validations) ==
    IF period_validations = <<>> THEN <<>>
    ELSE LET e == Head(period_validations)
         IN (IF ~Get(e.v, "first_match", TRUE)
             THEN <<[type |-> "period_mismatch", symbol |-> e.symbol, details |-> "starts"]>>
             ELSE <<>>)
            \o (IF ~Get(e.v, "last_match", TRUE)
                THEN <<[type |-> "period_mismatch", symbol |-> e.symbol, details |-> "ends"]>>
                ELSE <<>>)
            \o PeriodErrors(Tail(period_validations))

\* The errors are collected from self.validation_results, which validate
\* assigns only after this call: vr holds the results of the previous
\* validate call of this validator ({} before the first).
_collect_detailed_errors(vr) ==
    LET col_validation == Get(vr, "column_validation", EmptyDict)
        sym_validation == Get(vr, "symbol_validation", EmptyDict)
        period_validation == Get(vr, "active_period_validation", EmptyDict)
        missing_columns == Get(col_validation, "missing_columns", <<>>)
        missing_symbols == Get(sym_validation, "missing_symbols", <<>>)
        errors ==
            [k \in 1..Len(missing_columns) |->
                [type |-> "missing_column", symbol |-> missing_columns[k],
                 details |-> "Missing column"]]
            \o [k \in 1..Len(missing_symbols) |->
                [type |-> "missing_symbol", symbol |-> missing_symbols[k],
                 details |-> "Missing option symbol"]]
            \o PeriodErrors(Get(period_validation, "period_validations", <<>>))
    IN Take(errors, MaxErrors)

\* the weights of _calculate_overall_score, in hundredths
Weights ==
    [column_validation |-> 15, date_validation |-> 15, symbol_validation |-> 20,
     active_period_validation |-> 25, value_validation |-> 20,
     structure_validation |-> 5]

WeightKeys ==
    <<"column_validation", "date_validation", "symbol_validation",
      "active_period_validation", "value_validation", "structure_validation">>

_calculate_overall_score(res) ==
    RSum([k \in 1..Len(WeightKeys) |->
            RMul(Get(Get(res, WeightKeys[k], EmptyDict), "score", Zero),
                 Rat(Weights[WeightKeys[k]], 100))])

\* validate(generated) of a validator whose self.expected is exp and whose
\* self.validation_results is vr; the value returned, which is also the new
\* self.validation_results.  accuracy_metrics (a copy of the scores of vr)
\* is read by the log only and is left out.
validate(exp, vr, gen) ==
    LET res == [column_validation |-> _validate_columns(exp, gen),
                date_validation |-> _validate_dates(exp, gen),
                symbol_validation |-> _validate_symbols(exp, gen),
                active_period_validation |-> _validate_active_periods(exp, gen),
                value_validation |-> _validate_values(exp, gen),
                structure_validation |-> _validate_structure(exp, gen),
                detailed_errors |-> _collect_detailed_errors(vr)]
    IN [k \in DOMAIN res \cup {"overall_score"} |->
           IF k = "overall_score" THEN _calculate_overall_score(res) ELSE res[k]]

\* variant: a score equal to the threshold is no success
is_success_strict(res, threshold) == RLt(threshold, Get(res, "overall_score", Zero))

\* variant: the default threshold 0.99 instead of the configured one
is_success_default(res, threshold) == RLe(<<99, 100>>, Get(res, "overall_score", Zero))

is_success(res, threshold) == RLe(threshold, Get(res, "overall_score", Zero))

(***************************************************************************)
(* Parameter dictionaries.  dict.copy() is shallow: the copy has the same  *)
(* keys and refers to the same nested objects.  The only nested object     *)
(* that is ever modified in place is the period_adjustments dict, so a     *)
(* parameter dict holds under "period_adjustments" the address of that     *)
(* dict in heap, and copying a parameter dict copies the address.          *)
(***************************************************************************)
Put(d, k, v) == [x \in DOMAIN d \cup {k} |-> IF x = k THEN v ELSE d[x]]

\* d.pop(k, None)
Pop(d, k) == [x \in DOMAIN d \ {k} |-> d[x]]

\* d.update(e)
Update(d, e) == [x \in DOMAIN d \cup DOMAIN e |-> IF x \in DOMAIN e THEN e[x] ELSE d[x]]

\* the value of parameter dict p, nested dicts included
Deep(p, h) ==
    IF "period_adjustments" \in DOMAIN p
    THEN [p EXCEPT !["period_adjustments"] = h[p["period_adjustments"]]]
    ELSE p

(***************************************************************************)
(* ParameterRefiner                                                        *)
(***************************************************************************)
\* s.replace('/', '')
RECURSIVE RemoveSlashes(_)
RemoveSlashes(str) ==
    IF str = <<>> THEN <<>>
    ELSE IF Head(str) = "/" THEN RemoveSlashes(Tail(str))
    ELSE <<Head(str)>> \o RemoveSlashes(Tail(str))

\* s.lstrip('0')
RECURSIVE LStripZeros(_)
LStripZeros(str) ==
    IF str # <<>> /\ Head(str) = "0" THEN LStripZeros(Tail(str)) ELSE str

_fix_column_issues(p, res) ==
    LET col_validation == Get(res, "column_validation", EmptyDict)
        extra_cols == Get(col_validation, "extra_columns", <<>>)
    IN IF "Futures_Price" \in Range(extra_cols)
       THEN Put(p, "include_futures_price", FALSE)
       ELSE p

_fix_date_issues(p, res) ==
    LET date_validation == Get(res, "date_validation", EmptyDict)
        mismatches == Get(date_validation, "mismatches", <<>>)
        first_mismatch == mismatches[1]
        zero_padding ==
            /\ mismatches # <<>>
            /\ RemoveSlashes(first_mismatch.expected)
                 = LStripZeros(RemoveSlashes(first_mismatch.generated))
        p1 == IF zero_padding THEN Put(p, "date_format", "%-m/%-d/%y") ELSE p
        expected_count == Get(date_validation, "expected_count", 0)
        generated_count == Get(date_validation, "generated_count", 0)
    IN IF expected_count # generated_count
       THEN Put(Put(p1, "exact_row_count", expected_count), "include_weekends", TRUE)
       ELSE p1

_fix_symbol_issues(p, res) ==
    LET sym_validation == Get(res, "symbol_validation", EmptyDict)
        extra_symbols == Get(sym_validation, "extra_symbols", <<>>)
    IN IF extra_symbols # <<>> THEN Put(p, "symbols_to_exclude", extra_symbols) ELSE p

\* (x or 0) for a row label or None
OrZero(x) == IF x = NoneIdx THEN 0 ELSE x

\* 'period_adjustments' not in params: params['period_adjustments'] = {}
EnsureAdjustments(ph) ==
    IF "period_adjustments" \in DOMAIN ph.p THEN ph
    ELSE [p |-> Put(ph.p, "period_adjustments", Len(ph.h) + 1),
          h |-> Append(ph.h, EmptyDict)]

\* params['period_adjustments'][symbol] = v, in place
SetAdjustment(ph, symbol, v) ==
    LET a == ph.p["period_adjustments"]
    IN [p |-> ph.p, h |-> [ph.h EXCEPT ![a] = Put(ph.h[a], symbol, v)]]

\* the body of the loop of _fix_period_issues for one symbol
FixPeriodOf(ph, symbol, details) ==
    LET ph1 == IF ~Get(details, "first_match", TRUE)
               THEN SetAdjustment(EnsureAdjustments(ph), symbol,
                        [first_idx_offset |->
                            OrZero(Get(details, "expected_first", NoneIdx))
                              - OrZero(Get(details, "generated_first", NoneIdx))])
               ELSE ph
        ph2 == EnsureAdjustments(ph1)
        old == Get(ph2.h[ph2.p["period_adjustments"]], symbol, EmptyDict)
    IN IF ~Get(details, "last_match", TRUE)
       THEN SetAdjustment(ph2, symbol,
                Put(old, "last_idx_offset",
                    OrZero(Get(details, "expected_last", NoneIdx))
                      - OrZero(Get(details, "generated_last", NoneIdx))))
       ELSE ph1

RECURSIVE FixPeriods(_, _)
FixPeriods(ph, period_details) ==
    IF period_details = <<>> THEN ph
    ELSE FixPeriods(FixPeriodOf(ph, Head(period_details).symbol, Head(period_details).v),
                    Tail(period_details))

\* ph is a parameter dict p with the heap h it refers to
_fix_period_issues(ph, res) ==
    LET period_validation == Get(res, "active_period_validation", EmptyDict)
    IN FixPeriods(ph, Get(period_validation, "period_validations", <<>>))

_fix_value_issues(p, res) == Put(p, "use_stub", FALSE)

AspectOrder ==
    <<"column_validation", "date_validation", "symbol_validation",
      "active_period_validation", "value_validation">>

Failing(res, aspect) == RLt(Get(Get(res, aspect, EmptyDict), "score", Zero), One)

\* variant: a chain of independent ifs, every failing aspect is fixed
FixersToApplyAll(res) == SelectSeq(AspectOrder, LAMBDA a : Failing(res, a))

\* the if / elif chain of refine: the fixers that run, in order
FixersToApply(res) ==
    LET failing == SelectSeq(AspectOrder, LAMBDA a : Failing(res, a))
    IN Take(failing, 1)

ApplyFixer(ph, aspect, res) ==
    CASE aspect = "column_validation" -> [p |-> _fix_column_issues(ph.p, res), h |-> ph.h]
      [] aspect = "date_validation" -> [p |-> _fix_date_issues(ph.p, res), h |-> ph.h]
      [] aspect = "symbol_validation" -> [p |-> _fix_symbol_issues(ph.p, res), h |-> ph.h]
      [] aspect = "active_period_validation" -> _fix_period_issues(ph, res)
      [] aspect = "value_validation" -> [p |-> _fix_value_issues(ph.p, res), h |-> ph.h]

RECURSIVE ApplyFixers(_, _, _)
ApplyFixers(ph, aspects, res) ==
    IF aspects = <<>> THEN ph
    ELSE ApplyFixers(ApplyFixer(ph, Head(aspects), res), Tail(aspects), res)

\* variant: three strategies instead of four
ApproachOfThree(iteration_count, patience) == (iteration_count \div patience) % 3

\* approach = (self.iteration_count // self.patience) % 4
Approach(iteration_count, patience) == (iteration_count \div patience) % 4

_apply_larger_changes(rf, p) ==
    LET approach == Approach(rf.iteration_count, rf.patience)
    IN CASE approach = 0 -> Pop(Put(p, "date_format", "%m/%d/%y"), "period_adjustments")
         [] approach = 1 -> Put(p, "global_period_shift", 5)
         [] approach = 2 -> Put(p, "skip_weekends", TRUE)
         [] OTHER -> rf.best_params

\* variant: a tie counts as a new best score
ImprovesOrTies(current_score, rf) == RLe(rf.best_score, current_score)

\* "Update best score": the score comparison of refine
Improves(current_score, rf) == RLt(rf.best_score, current_score)

\* variant: larger changes only after more than patience iterations
IsStuckLate(rf) == rf.stuck_count > rf.patience

\* "If stuck, try larger changes"
IsStuck(rf) == rf.stuck_count >= rf.patience

\* refine(current_params, validation_results) of refiner rf with history hist
\* and heap h.  The result gives the refiner, the history and the heap after
\* the call, the dict returned (new_params), and what the call did: the fixers
\* it ran, whether it escalated and stuck_count before the escalation.
refine(rf, hist, h, current_params, res) ==
    LET iteration_count == rf.iteration_count + 1
        current_score == Get(res, "overall_score", Zero)
        entry == [iteration |-> iteration_count, params |-> current_params,
                  results |-> res, score |-> current_score]
        rf1 == IF Improves(current_score, rf)
               THEN [rf EXCEPT !.iteration_count = iteration_count,
                               !.best_score = current_score,
                               !.best_params = current_params,
                               !.stuck_count = 0]
               ELSE [rf EXCEPT !.iteration_count = iteration_count,
                               !.stuck_count = rf.stuck_count + 1]
        fixers == FixersToApply(res)
        fixed == ApplyFixers([p |-> current_params, h |-> h], fixers, res)
        escalate == IsStuck(rf1)
    IN [refiner |-> IF escalate THEN [rf1 EXCEPT !.stuck_count = 0] ELSE rf1,
        history |-> Append(hist, entry),
        heap |-> fixed.h,
        new_params |-> IF escalate THEN _apply_larger_changes(rf1, fixed.p) ELSE fixed.p,
        fixers |-> fixers,
        escalated |-> escalate,
        stuck_after_update |-> rf1.stuck_count]

\* get_convergence_info()
get_convergence_info(rf, hist) ==
    LET scores == [k \in 1..Len(hist) |-> hist[k].score]
    IN [iterations |-> rf.iteration_count,
        best_score |-> rf.best_score,
        current_score |-> IF scores # <<>> THEN scores[Len(scores)] ELSE Zero,
        stuck_count |-> rf.stuck_count,
        score_history |-> scores,
        improving |-> IF Len(scores) >= 2
                      THEN RLt(scores[Len(scores) - 1], scores[Len(scores)])
                      ELSE FALSE]

\* ParameterRefiner(config)
NewRefiner(patience) ==
    [iteration_count |-> 0, best_score |-> Zero, best_params |-> EmptyDict,
     stuck_count |-> 0, patience |-> patience]

(***************************************************************************)
(* OptionGenerator: the parameter interface                                *)
(***************************************************************************)
\* self.params after __init__; the five values copied from the configuration
\* are never written again and delta_target stands for them
InitialParams == [delta_target |-> 15, use_stub |-> TRUE]

\* get_params(): self.params.copy()
get_params(p) == p

\* update_params(new_params): self.params.update(new_params)
update_params(p, new_params) == Update(p, new_params)

(***************************************************************************)
(* The tables the model draws its inputs from.                             *)
(***************************************************************************)
Digits == <<"0", "1", "2", "3", "4", "5", "6", "7", "8", "9">>

\* the day of row i: 3, 13, 23, ...
DayOf(i) == IF i = 1 THEN <<"3">> ELSE <<Digits[i], "3">>

\* the timestamp of row i as the reference writes it (%-m/%-d/%y): 1/3/22, 1/13/22
DateStr(i) == <<"1", "/">> \o DayOf(i) \o <<"/", "2", "2">>

\* the same day with zero padding (%m/%d/%y): 01/03/22, 01/13/22
PaddedDateStr(i) ==
    <<"0", "1", "/">> \o (IF i = 1 THEN <<"0", "3">> ELSE DayOf(i)) \o <<"/", "2", "2">>

FuturesPrice == 250

OptionPrice == 10

\* the column layouts of the reference tables
ExpectedLayouts ==
    {<<"timestamp", "A">>, <<"timestamp", "Futures_Price", "A">>,
     <<"timestamp", "A", "B">>}

\* the timestamp columns of a reference table of n rows: one day per row, or
\* the same day on every row
TimestampColumns(n) == {[i \in 1..n |-> DateStr(i)], [i \in 1..n |-> DateStr(1)]}

\* the reference tables with the given layout and number of rows
TablesOf(layout, n) ==
    LET options == Range(layout) \ NonOptionColumns
    IN {[columns |-> layout, n |-> n,
         data |-> [c \in Range(layout) |->
                     IF c = "timestamp" THEN ts
                     ELSE IF c = "Futures_Price" THEN [i \in 1..n |-> FuturesPrice]
                     ELSE cells[c]]] :
           ts \in TimestampColumns(n),
           cells \in [options -> [1..n -> {NaN, OptionPrice}]]}

ExpectedTables == UNION {TablesOf(layout, n) : layout \in ExpectedLayouts, n \in 1..MaxRows}

\* ---- the ways a generated table differs from the reference ---------------
DropColumn(df, c) ==
    [columns |-> SelectSeqIn(df.columns, Range(df.columns) \ {c}),
     n |-> df.n,
     data |-> [d \in Range(df.columns) \ {c} |-> df.data[d]]]

AddColumn(df, c, v) ==
    [columns |-> Append(df.columns, c),
     n |-> df.n,
     data |-> [d \in Range(df.columns) \cup {c} |->
                 IF d = c THEN [i \in 1..df.n |-> v] ELSE df.data[d]]]

DropLastRow(df) ==
    [columns |-> df.columns, n |-> df.n - 1,
     data |-> [d \in Range(df.columns) |-> SubSeq(df.data[d], 1, df.n - 1)]]

SetColumn(df, c, col) ==
    [columns |-> df.columns, n |-> df.n,
     data |-> [d \in Range(df.columns) |-> IF d = c THEN col ELSE df.data[d]]]

ReverseColumns(df) ==
    [columns |-> [k \in 1..Len(df.columns) |-> df.columns[Len(df.columns) + 1 - k]],
     n |-> df.n, data |-> df.data]

\* the tables a generator may produce for reference table exp
GeneratedTables(exp) ==
    LET options == Range(exp.columns) \ NonOptionColumns
    IN {exp, DropLastRow(exp), ReverseColumns(exp)}
       \cup {DropColumn(exp, c) : c \in Range(exp.columns)}
       \cup {AddColumn(exp, c, FuturesPrice) : c \in {"Futures_Price", "X"} \ Range(exp.columns)}
       \cup {SetColumn(exp, "timestamp", [i \in 1..exp.n |-> PaddedDateStr(i)])}
       \cup {SetColumn(exp, c, [i \in 1..exp.n |-> NaN]) : c \in options}
       \cup {SetColumn(exp, c, [i \in 1..exp.n |-> OptionPrice + 5]) : c \in options}

(***************************************************************************)
(* SpecValidator: one OutputValidator, built from any reference table,     *)
(* validating any sequence of generated tables.                            *)
(***************************************************************************)
NoCall == [op |-> "none"]

InitValidator ==
    /\ ManagersIdle
    /\ BridgeIdle
    /\ CliIdle
    /\ expected \in ExpectedTables
    /\ validation_results = EmptyDict
    /\ generated = NONE
    /\ results = EmptyDict
    /\ call = NoCall
    /\ params = EmptyDict
    /\ refiner = EmptyDict
    /\ history = <<>>
    /\ heap = <<>>
    /\ pc = "validator"
    /\ max_iterations = 0
    /\ success_threshold = One
    /\ iteration = 0
    /\ best_score = Zero
    /\ best_iteration = 0
    /\ files = EmptyDict
    /\ summary = NONE

\* results = validator.validate(gen)
Validate(gen) ==
    /\ pc = "validator"
    /\ generated' = gen
    /\ results' = validate(expected, validation_results, gen)
    /\ validation_results' = results'
    /\ call' = [op |-> "validate", first |-> validation_results = EmptyDict]
    /\ UNCHANGED <<managerVars, bridgeVars, cliVars>>
    /\ UNCHANGED <<expected, params, refiner, history, heap, pc, max_iterations,
                   success_threshold, iteration, best_score, best_iteration,
                   files, summary>>

NextValidator == \E gen \in GeneratedTables(expected) : Validate(gen)

SpecValidator == InitValidator /\ [][NextValidator]_vars

(***************************************************************************)
(* SpecRefiner: one ParameterRefiner and the generator whose parameters it *)
(* refines, as lines 152-153 of src/archive/main.py use them:              *)
(*     new_params = refiner.refine(generator.get_params(), results)        *)
(*     generator.update_params(new_params)                                 *)
(* for any sequence of validation results.                                 *)
(***************************************************************************)
\* the reference table of the refiner's and the loop's validator
Reference ==
    [columns |-> <<"timestamp", "A">>, n |-> MaxRows,
     data |-> [timestamp |-> [i \in 1..MaxRows |-> DateStr(i)],
               A |-> [i \in 1..MaxRows |-> OptionPrice]]]

\* the results a validator of Reference returns: on its first call, for a
\* table whose column A is filled on one row only, and for a matching table
\* after a call on a table without column A
RefinerResults ==
    {validate(Reference, EmptyDict, gen) : gen \in GeneratedTables(Reference)}
    \cup {validate(Reference, EmptyDict,
                   SetColumn(Reference, "A",
                             [i \in 1..MaxRows |-> IF i = k THEN OptionPrice ELSE NaN])) :
              k \in 1..MaxRows}
    \cup {validate(Reference, validate(Reference, EmptyDict, DropColumn(Reference, "A")),
                   Reference)}

NoApproach == -1

InitRefiner ==
    /\ ManagersIdle
    /\ BridgeIdle
    /\ CliIdle
    /\ expected = Reference
    /\ validation_results = EmptyDict
    /\ generated = NONE
    /\ results = EmptyDict
    /\ call = [op |-> "none", last_approach |-> NoApproach, improved_since |-> FALSE]
    /\ params = InitialParams
    /\ \E patience \in 1..MaxPatience : refiner = NewRefiner(patience)
    /\ history = <<>>
    /\ heap = <<>>
    /\ pc = "refiner"
    /\ max_iterations = 0
    /\ success_threshold = One
    /\ iteration = 0
    /\ best_score = Zero
    /\ best_iteration = 0
    /\ files = EmptyDict
    /\ summary = NONE

\* what a refine call did, for the claims: r is the value of refine, before
\* the call record of the previous operation
RefineCallRecord(r, current_params, res, before) ==
    [op |-> "refine",
     current_params |-> current_params,
     results |-> res,
     \* the previous operation was a refine call with the same results
     same_as_previous |-> before.op = "refine" /\ before.results = res,
     new_params |-> r.new_params,
     fixers |-> r.fixers,
     escalated |-> r.escalated,
     stuck_after_update |-> r.stuck_after_update,
     approach |-> IF r.escalated
                  THEN Approach(r.refiner.iteration_count, r.refiner.patience)
                  ELSE NoApproach,
     \* the strategy of the latest escalation so far
     last_approach |-> IF r.escalated
                       THEN Approach(r.refiner.iteration_count, r.refiner.patience)
                       ELSE before.last_approach,
     \* a new best score was recorded since the latest escalation
     improved_since |-> IF r.escalated THEN FALSE
                        ELSE before.improved_since \/ r.stuck_after_update = 0]

RefineStep(res) ==
    /\ pc = "refiner"
    /\ refiner.iteration_count < MaxCalls
    /\ LET current_params == get_params(params)
           r == refine(refiner, history, heap, current_params, res)
       IN /\ refiner' = r.refiner
          /\ history' = r.history
          /\ heap' = r.heap
          /\ params' = update_params(params, r.new_params)
          /\ call' = RefineCallRecord(r, current_params, res, call)
    /\ results' = res
    /\ UNCHANGED <<managerVars, bridgeVars, cliVars>>
    /\ UNCHANGED <<expected, validation_results, generated, pc, max_iterations,
                   success_threshold, iteration, best_score, best_iteration,
                   files, summary>>

NextRefiner == \E res \in RefinerResults : RefineStep(res)

SpecRefiner == InitRefiner /\ [][NextRefiner]_vars

(***************************************************************************)
(* SpecLoop: main() of src/archive/main.py from "Track best result" to the *)
(* summary, with the validator and the refiner above and a generator that  *)
(* may produce any of LoopTables in each iteration.                        *)
(***************************************************************************)
\* what the generator may produce: the reference itself, the reference with
\* an extra Futures_Price column, the reference with other prices
LoopTables ==
    {Reference,
     AddColumn(Reference, "Futures_Price", FuturesPrice),
     SetColumn(Reference, "A", [i \in 1..Reference.n |-> OptionPrice + 5])}

\* config['feedback_loop']['convergence_threshold']
Thresholds == {<<4, 5>>, One}

\* <<config['refiner']['patience'], --max-iterations>>: a short patience with
\* no, one and a few iterations, and a patience above the early-stop limit
\* with enough iterations to reach that limit
LoopConfigs == {<<2, 0>>, <<2, 1>>, <<2, 6>>, <<12, MaxIterations>>}

\* variant: the range runs one iteration too far
HasNextIterationOffByOne(it, limit) == it <= limit

\* for iteration in range(1, args.max_iterations + 1): another iteration follows
HasNextIteration(it, limit) == it < limit

\* variant: a tie counts as an improvement
BeatsBestOrTies(current_score, best) == RLe(best, current_score)

\* if current_score > best_score
BeatsBest(current_score, best) == RLt(best, current_score)

\* variant: one more stuck iteration is tolerated
StopsEarlyLate(info) == info.stuck_count > 11

\* if convergence_info['stuck_count'] > 10
StopsEarly(info) == info.stuck_count > 10

NoFiles == [iteration |-> EmptyDict, best_result |-> <<>>, final_result |-> <<>>,
            comparison_report |-> FALSE, refinement_history |-> FALSE]

InitLoop ==
    /\ ManagersIdle
    /\ BridgeIdle
    /\ CliIdle
    /\ expected = Reference
    /\ validation_results = EmptyDict
    /\ generated = NONE
    /\ results = EmptyDict
    /\ call = [op |-> "none", steps |-> <<>>, scores |-> <<>>, exit |-> NONE,
               wrote_best |-> FALSE, best_before |-> Zero]
    /\ params = InitialParams
    /\ \E config \in LoopConfigs :
          /\ refiner = NewRefiner(config[1])
          /\ max_iterations = config[2]
    /\ history = <<>>
    /\ heap = <<>>
    /\ pc = "for"
    /\ success_threshold \in Thresholds
    /\ iteration = 0
    /\ best_score = Zero
    /\ best_iteration = 0
    /\ files = NoFiles
    /\ summary = NONE

\* the step op of the current iteration has been performed
Did(op) == [call EXCEPT !.op = op, !.steps = Append(call.steps, op)]

\* line 115: the loop takes its next iteration
ForIterate ==
    /\ pc = "for"
    /\ HasNextIteration(iteration, max_iterations)
    /\ iteration' = iteration + 1
    /\ pc' = "generate"
    /\ call' = [call EXCEPT !.op = "for", !.steps = <<>>]
    /\ UNCHANGED <<managerVars, bridgeVars, cliVars>>
    /\ UNCHANGED <<expected, validation_results, params, refiner, history, heap,
                   max_iterations, success_threshold, generated, results,
                   best_score, best_iteration, files, summary>>

\* line 115: the range is exhausted
ForExhausted ==
    /\ pc = "for"
    /\ ~HasNextIteration(iteration, max_iterations)
    /\ pc' = "report"
    /\ call' = [call EXCEPT !.op = "for", !.exit = "limit"]
    /\ UNCHANGED <<managerVars, bridgeVars, cliVars>>
    /\ UNCHANGED <<expected, validation_results, params, refiner, history, heap,
                   max_iterations, success_threshold, iteration, generated,
                   results, best_score, best_iteration, files, summary>>

\* line 121: generated = generator.generate()
Generate(gen) ==
    /\ pc = "generate"
    /\ generated' = gen
    /\ pc' = "validate"
    /\ call' = Did("generate")
    /\ UNCHANGED <<managerVars, bridgeVars, cliVars>>
    /\ UNCHANGED <<expected, validation_results, params, refiner, history, heap,
                   max_iterations, success_threshold, iteration, results,
                   best_score, best_iteration, files, summary>>

\* lines 124-125: results = validator.validate(generated)
LoopValidate ==
    /\ pc = "validate"
    /\ results' = validate(expected, validation_results, generated)
    /\ validation_results' = results'
    /\ pc' = "save_iteration"
    /\ call' = [Did("validate") EXCEPT
                   !.scores = Append(call.scores, Get(results', "overall_score", Zero))]
    /\ UNCHANGED <<managerVars, bridgeVars, cliVars>>
    /\ UNCHANGED <<expected, params, refiner, history, heap, max_iterations,
                   success_threshold, iteration, generated, best_score,
                   best_iteration, files, summary>>

\* lines 128-129: iteration_NNN.csv
SaveIteration ==
    /\ pc = "save_iteration"
    /\ files' = [files EXCEPT !.iteration = Put(files.iteration, iteration, generated)]
    /\ pc' = "track_best"
    /\ call' = Did("save_iteration")
    /\ UNCHANGED <<managerVars, bridgeVars, cliVars>>
    /\ UNCHANGED <<expected, validation_results, params, refiner, history, heap,
                   max_iterations, success_threshold, iteration, generated,
                   results, best_score, best_iteration, summary>>

\* lines 133-138: best_score, best_iteration and best_result.csv
TrackBest ==
    /\ pc = "track_best"
    /\ LET current_score == Get(results, "overall_score", Zero)
       IN /\ IF BeatsBest(current_score, best_score)
             THEN /\ best_score' = current_score
                  /\ best_iteration' = iteration
                  /\ files' = [files EXCEPT !.best_result = <<generated>>]
             ELSE UNCHANGED <<best_score, best_iteration, files>>
          /\ call' = [Did("track_best") EXCEPT
                         !.wrote_best = BeatsBest(current_score, best_score),
                         !.best_before = best_score]
    /\ pc' = "check_success"
    /\ UNCHANGED <<managerVars, bridgeVars, cliVars>>
    /\ UNCHANGED <<expected, validation_results, params, refiner, history, heap,
                   max_iterations, success_threshold, iteration, generated,
                   results, summary>>

\* lines 144-149: success writes final_result.csv and leaves the loop
CheckSuccess ==
    /\ pc = "check_success"
    /\ IF is_success(results, success_threshold)
       THEN /\ files' = [files EXCEPT !.final_result = <<generated>>]
            /\ pc' = "report"
            /\ call' = [Did("check_success") EXCEPT !.exit = "success"]
       ELSE /\ pc' = "refine"
            /\ call' = Did("check_success")
            /\ UNCHANGED files
    /\ UNCHANGED <<managerVars, bridgeVars, cliVars>>
    /\ UNCHANGED <<expected, validation_results, params, refiner, history, heap,
                   max_iterations, success_threshold, iteration, generated,
                   results, best_score, best_iteration, summary>>

\* lines 152-153: refine and update_params
RefineParams ==
    /\ pc = "refine"
    /\ LET r == refine(refiner, history, heap, get_params(params), results)
       IN /\ refiner' = r.refiner
          /\ history' = r.history
          /\ heap' = r.heap
          /\ params' = update_params(params, r.new_params)
    /\ pc' = "early_stop"
    /\ call' = [call EXCEPT !.op = "update_params",
                            !.steps = call.steps \o <<"refine", "update_params">>]
    /\ UNCHANGED <<managerVars, bridgeVars, cliVars>>
    /\ UNCHANGED <<expected, validation_results, max_iterations, success_threshold,
                   iteration, generated, results, best_score, best_iteration,
                   files, summary>>

\* lines 156-159: early stopping
EarlyStop ==
    /\ pc = "early_stop"
    /\ IF StopsEarly(get_convergence_info(refiner, history))
       THEN /\ pc' = "report"
            /\ call' = [call EXCEPT !.op = "early_stop", !.exit = "stuck"]
       ELSE /\ pc' = "for"
            /\ call' = [call EXCEPT !.op = "early_stop"]
    /\ UNCHANGED <<managerVars, bridgeVars, cliVars>>
    /\ UNCHANGED <<expected, validation_results, params, refiner, history, heap,
                   max_iterations, success_threshold, iteration, generated,
                   results, best_score, best_iteration, files, summary>>

\* lines 161-175: the comparison report of best_result.csv and the history
Report ==
    /\ pc = "report"
    /\ files' = [files EXCEPT !.comparison_report = files.best_result # <<>>,
                              !.refinement_history = TRUE]
    /\ pc' = "summary"
    /\ call' = [call EXCEPT !.op = "report"]
    /\ UNCHANGED <<managerVars, bridgeVars, cliVars>>
    /\ UNCHANGED <<expected, validation_results, params, refiner, history, heap,
                   max_iterations, success_threshold, iteration, generated,
                   results, best_score, best_iteration, summary>>

\* lines 177-192: the summary.  After a loop of no iteration the name
\* iteration is unbound at line 178: the NameError is caught at line 190 and
\* the process exits with status 1.
Summary ==
    /\ pc = "summary"
    /\ IF iteration = 0
       THEN /\ summary' = "error"
            /\ pc' = "failed"
       ELSE /\ summary' = IF RLe(success_threshold, best_score)
                          THEN "success" ELSE "not_reached"
            /\ pc' = "done"
    /\ call' = [call EXCEPT !.op = "summary"]
    /\ UNCHANGED <<managerVars, bridgeVars, cliVars>>
    /\ UNCHANGED <<expected, validation_results, params, refiner, history, heap,
                   max_iterations, success_threshold, iteration, generated,
                   results, best_score, best_iteration, files>>

NextLoop ==
    \/ ForIterate
    \/ ForExhausted
    \/ \E gen \in LoopTables : Generate(gen)
    \/ LoopValidate
    \/ SaveIteration
    \/ TrackBest
    \/ CheckSuccess
    \/ RefineParams
    \/ EarlyStop
    \/ Report
    \/ Summary

SpecLoop == InitLoop /\ [][NextLoop]_vars

(***************************************************************************)
(* Claims about the validator (SpecValidator)                              *)
(***************************************************************************)
\* C9: validating a table that is identical to the reference table yields
\* overall_score == 1.0 and an empty error list, for every table.
SelfValidationIsPerfect ==
    (call.op = "validate" /\ generated = expected)
        => (results.overall_score = One /\ results.detailed_errors = <<>>)

\* the error list has a missing-column error for column c
HasMissingColumnError(errors, c) ==
    \E k \in 1..Len(errors) : errors[k].type = "missing_column" /\ errors[k].symbol = c

\* C10: every validate call on a table that lacks a column of the reference
\* returns an error list with a missing-column error for that column, on the
\* first call and on any later call, and never more than 20 entries.
MissingColumnReported ==
    call.op = "validate"
        => /\ \A c \in Range(expected.columns) \ Range(generated.columns) :
                 HasMissingColumnError(results.detailed_errors, c)
           /\ Len(results.detailed_errors) <= MaxErrors

(***************************************************************************)
(* Claims about the refiner (SpecRefiner)                                  *)
(***************************************************************************)
ErrorFree(res) == res.detailed_errors = <<>>

\* C6: a second refine call with the same, error-free validation results
\* leaves best_params as the first call left it, and increments stuck_count
\* only if the score does not exceed best_score.
RefineTwiceKeepsBest ==
    [][(call.op = "refine" /\ call'.op = "refine"
            /\ call'.results = call.results /\ ErrorFree(call.results))
        => /\ Deep(refiner'.best_params, heap') = Deep(refiner.best_params, heap)
           /\ (call'.stuck_after_update = refiner.stuck_count + 1
                 => ~RLt(refiner.best_score, call'.results.overall_score))]_vars

\* C6 witness: a second call with the same error-free results has been made,
\* after the first recorded its parameters as the best and changed them
RefinedTwiceSame ==
    /\ call.op = "refine"
    /\ call.same_as_previous
    /\ ErrorFree(call.results)
    /\ refiner.best_params # EmptyDict
    /\ call.current_params # refiner.best_params
    /\ call.stuck_after_update > 0

\* C7 as stated: an escalation fires exactly when stuck_count has reached
\* patience and resets it, and each escalation uses the strategy following
\* the one of the previous escalation, whatever happened in between.
EscalationCyclesAlways ==
    [][call'.op = "refine"
        => /\ call'.escalated <=> call'.stuck_after_update >= refiner.patience
           /\ call'.escalated => refiner'.stuck_count = 0
           /\ (call'.escalated /\ call.last_approach # NoApproach)
                => call'.approach = (call.last_approach + 1) % 4]_vars

\* C7 amended: the strategy follows the one of the previous escalation when
\* no new best score was recorded between the two escalations.
EscalationCyclesWhenStuck ==
    [][call'.op = "refine"
        => /\ call'.escalated <=> call'.stuck_after_update >= refiner.patience
           /\ call'.escalated => refiner'.stuck_count = 0
           /\ (call'.escalated /\ call.last_approach # NoApproach
                 /\ ~call.improved_since)
                => call'.approach = (call.last_approach + 1) % 4]_vars

\* C7 witness: a second escalation with no improvement since the first, which
\* used the strategy before "revert to best-known parameters"
EscalatedTwice ==
    /\ call.op = "refine"
    /\ call.escalated
    /\ call.approach = 3
    /\ Len(history) >= 3
    /\ refiner.stuck_count = 0

FirstFailing(res, k) ==
    /\ Failing(res, AspectOrder[k])
    /\ \A j \in 1..(k - 1) : ~Failing(res, AspectOrder[j])

\* C8: a refine call runs at most one fixer, the one of the first failing
\* aspect in the order columns, dates, symbols, active periods, values; with
\* no failing aspect and no escalation it returns the parameters passed in.
OneFixerFirstFailing ==
    call.op = "refine"
        => /\ Len(call.fixers) <= 1
           /\ \A k \in 1..Len(AspectOrder) :
                 FirstFailing(call.results, k) => call.fixers = <<AspectOrder[k]>>
           /\ \A k \in {1, 2, 3, 5} :
                 (FirstFailing(call.results, k) /\ ~call.escalated)
                    => call.new_params
                         = ApplyFixer([p |-> call.current_params, h |-> heap],
                                      AspectOrder[k], call.results).p
           /\ ((\A k \in 1..Len(AspectOrder) : ~Failing(call.results, AspectOrder[k]))
                 /\ ~call.escalated)
                => (call.fixers = <<>> /\ call.new_params = call.current_params)

\* C8 witness: a call whose results fail several aspects ran the column fixer
\* only, and another call returned its parameters unchanged
SeveralFailingOneFixed ==
    /\ call.op = "refine"
    /\ Failing(call.results, "column_validation")
    /\ Failing(call.results, "symbol_validation")
    /\ Failing(call.results, "value_validation")
    /\ call.fixers = <<"column_validation">>
    /\ "include_futures_price" \in DOMAIN call.current_params

(***************************************************************************)
(* Claims about the feedback loop (SpecLoop, SpecLoopFair)                 *)
(***************************************************************************)
LoopLeft == pc \in {"report", "summary", "done", "failed"}

\* the score of the current iteration, once validated
CurrentScore == call.scores[Len(call.scores)]

LoopSteps ==
    <<"for", "generate", "validate", "save_iteration", "track_best",
      "check_success", "refine", "early_stop">>

\* the position of pc in a pass through the loop body, counted from its end
StepsLeft ==
    CASE pc = "generate" -> 7
      [] pc = "validate" -> 6
      [] pc = "save_iteration" -> 5
      [] pc = "track_best" -> 4
      [] pc = "check_success" -> 3
      [] pc = "refine" -> 2
      [] pc = "early_stop" -> 1
      [] pc = "for" -> 0
      [] pc = "report" -> -1
      [] pc = "summary" -> -2
      [] OTHER -> -3

\* a bound on the number of steps main() has still to take
Measure == IF LoopLeft THEN StepsLeft ELSE (max_iterations - iteration) * 8 + StepsLeft

IterationOrder ==
    <<"generate", "validate", "save_iteration", "track_best", "check_success",
      "refine", "update_params">>

IsPrefix(s, t) == Len(s) <= Len(t) /\ s = SubSeq(t, 1, Len(s))

\* C2: the steps of an iteration happen in the order generate, validate,
\* persist iteration_NNN.csv, update best_result.csv, success check, refine +
\* update_params; an iteration whose score is >= the threshold ends the loop
\* without refine / update_params; iteration_NNN.csv exists for every
\* iteration that ran, the successful one included.
IterationStepsInOrder ==
    /\ IsPrefix(call.steps, IterationOrder)
    /\ ("check_success" \in Range(call.steps)
          /\ RLe(success_threshold, CurrentScore))
         => (LoopLeft /\ "refine" \notin Range(call.steps)
               /\ Len(history) = iteration - 1)
    /\ "refine" \in Range(call.steps) => Len(history) = iteration
    /\ \A k \in 1..iteration :
          (k < iteration \/ "save_iteration" \in Range(call.steps))
             => k \in DOMAIN files.iteration
    /\ LoopLeft => DOMAIN files.iteration = 1..iteration

\* C2 witness: the loop ended on a success after an iteration that refined
StoppedOnSuccess ==
    /\ pc = "done"
    /\ call.exit = "success"
    /\ iteration = 3
    /\ Len(history) = 2
    /\ files.iteration[3] = Reference

\* C3: when the refiner reports stuck_count > 10 after a refinement, the loop
\* stops there, whatever the iteration limit.
StuckStopsLoop ==
    [][(pc = "early_stop" /\ refiner.stuck_count > 10)
         => (pc' = "report" /\ iteration' = iteration)]_vars

\* C3 witness: the loop was left on the stuck signal before the limit
StoppedEarly ==
    /\ pc = "report"
    /\ call.exit = "stuck"
    /\ get_convergence_info(refiner, history).stuck_count > 10
    /\ iteration < max_iterations

RMax(x, y) == IF RLe(x, y) THEN y ELSE x

RECURSIVE MaxScore(_)
MaxScore(scores) ==
    IF scores = <<>> THEN Zero ELSE RMax(Head(scores), MaxScore(Tail(scores)))

\* the scores of the iterations whose best-tracking step is done
TrackedScores ==
    IF pc \in {"save_iteration", "track_best"}
    THEN SubSeq(call.scores, 1, Len(call.scores) - 1)
    ELSE call.scores

\* the first iteration whose score is the maximum of the tracked scores
FirstBest ==
    CHOOSE k \in 1..Len(TrackedScores) :
        /\ TrackedScores[k] = MaxScore(TrackedScores)
        /\ \A j \in 1..(k - 1) : TrackedScores[j] # MaxScore(TrackedScores)

\* C4: best_result.csv is written in an iteration iff its score is strictly
\* greater than the best so far; best_score is the maximum score seen so far
\* (0.0 if none exceeded 0) and never decreases; best_result.csv holds the
\* table of the first iteration that reached that maximum.
BestIsFirstMaximum ==
    /\ [](/\ best_score = MaxScore(TrackedScores)
          /\ pc = "check_success"
               => (call.wrote_best <=> RLt(call.best_before, CurrentScore))
          /\ IF best_score = Zero
             THEN files.best_result = <<>> /\ best_iteration = 0
             ELSE /\ best_iteration = FirstBest
                  /\ files.best_result = <<files.iteration[FirstBest]>>)
    /\ [][RLe(best_score, best_score')]_vars

\* C4 witness: the best score was improved twice and then tied without a
\* rewrite of best_result.csv
BestKeptOnTie ==
    /\ pc = "check_success"
    /\ iteration = 4
    /\ best_iteration = 2
    /\ CurrentScore = best_score
    /\ ~call.wrote_best
    /\ files.best_result = <<files.iteration[2]>>

\* some iteration's score reached the threshold and its success check is done
Converged ==
    \E k \in 1..Len(call.scores) :
        /\ RLe(success_threshold, call.scores[k])
        /\ (k < Len(call.scores) \/ pc \notin {"save_iteration", "track_best", "check_success"})

\* C5: final_result.csv is written iff the loop converged (some iteration's
\* score is >= the threshold); it holds the table of that iteration, and the
\* summary reports success exactly in that case.
FinalResultIffConverged ==
    /\ files.final_result # <<>> <=> Converged
    /\ files.final_result # <<>>
         => (/\ files.final_result = <<files.iteration[iteration]>>
             /\ RLe(success_threshold, CurrentScore)
             /\ LoopLeft)
    /\ pc = "done" => (summary = "success" <=> Converged)
    /\ summary = "success" => pc = "done"

\* C5 witness: both outcomes of the summary
ConvergedLate ==
    /\ pc = "done"
    /\ summary = "success"
    /\ iteration > 1
    /\ files.final_result = <<Reference>>
    /\ files.best_result = <<Reference>>

(***************************************************************************)
(* Dates.  A datetime at midnight is modelled by its proleptic Gregorian   *)
(* ordinal (datetime.toordinal()), so that comparison and timedelta(days)  *)
(* are integer comparison and addition.                                    *)
(***************************************************************************)
is_leap(y) == (y % 4 = 0 /\ y % 100 # 0) \/ y % 400 = 0

\* calendar.monthrange(y, m)[1]
days_in_month(y, m) ==
    IF m = 2 THEN (IF is_leap(y) THEN 29 ELSE 28)
    ELSE IF m \in {4, 6, 9, 11} THEN 30 ELSE 31

days_before_year(y) ==
    LET p == y - 1 IN p * 365 + (p \div 4) - (p \div 100) + (p \div 400)

RECURSIVE days_before_month(_, _)
days_before_month(y, m) ==
    IF m = 1 THEN 0 ELSE days_before_month(y, m - 1) + days_in_month(y, m - 1)

\* datetime(y, m, d)
datetime(y, m, d) == days_before_year(y) + days_before_month(y, m) + d

\* date.year, date.month, date.day
year_of(n) ==
    LET guess == ((n * 400) \div 146097) + 1
    IN IF n < datetime(guess, 1, 1) THEN guess - 1
       ELSE IF n >= datetime(guess + 1, 1, 1) THEN guess + 1
       ELSE guess

month_of(n) ==
    LET y == year_of(n)
    IN CHOOSE m \in 1..12 :
           /\ datetime(y, m, 1) <= n
           /\ n < datetime(y, m, 1) + days_in_month(y, m)

day_of(n) == n - datetime(year_of(n), month_of(n), 1) + 1

\* date.weekday(): Monday is 0
weekday(n) == (n + 6) % 7

\* pandas.tseries.holiday.nearest_workday: Saturday -> Friday, Sunday -> Monday
nearest_workday(n) ==
    IF weekday(n) = 5 THEN n - 1 ELSE IF weekday(n) = 6 THEN n + 1 ELSE n

\* the fixed-date rules of USFederalHolidayCalendar for year y
FixedHolidays(y) ==
    {datetime(y, 1, 1), datetime(y, 7, 4), datetime(y, 11, 11), datetime(y, 12, 25)}
        \cup (IF y >= 2021 THEN {datetime(y, 6, 19)} ELSE {})

\* n is in USFederalHolidayCalendar().holidays(start=n, end=n + 1 day)
is_holiday(n) ==
    LET y == year_of(n)
        m == month_of(n)
        d == day_of(n)
        wd == weekday(n)
    IN \/ \E h \in FixedHolidays(y) \cup {datetime(y + 1, 1, 1)} :
              nearest_workday(h) = n
       \/ wd = 0 /\ m = 1 /\ d \in 15..21     \* Martin Luther King Jr. Day
       \/ wd = 0 /\ m = 2 /\ d \in 15..21     \* Presidents Day
       \/ wd = 0 /\ m = 5 /\ d >= 25          \* Memorial Day
       \/ wd = 0 /\ m = 9 /\ d <= 7           \* Labor Day
       \/ wd = 0 /\ m = 10 /\ d \in 8..14     \* Columbus Day
       \/ wd = 3 /\ m = 11 /\ d \in 22..28    \* Thanksgiving

is_trading_day(n) == weekday(n) < 5 /\ ~is_holiday(n)

RECURSIVE NextTradingFrom(_)
NextTradingFrom(n) == IF is_trading_day(n) THEN n ELSE NextTradingFrom(n + 1)

get_next_trading_day(n) == NextTradingFrom(n + 1)

\* get_first_trading_day(first_day): futures_manager.py imports it from
\* utils.date_utils, which defines only get_first_trading_day_of_month(year,
\* month); it is the first trading day on or after first_day
get_first_trading_day(first_day) ==
    IF is_trading_day(first_day) THEN first_day ELSE get_next_trading_day(first_day)

(***************************************************************************)
(* FuturesManager.  A symbol is a string, modelled as the sequence of its  *)
(* characters.                                                             *)
(***************************************************************************)
contract_months ==
    <<"F", "G", "H", "J", "K", "M", "N", "Q", "U", "V", "X", "Z">>

UpperCase ==
    {"A", "B", "C", "D", "E", "F", "G", "H", "I", "J", "K", "L", "M", "N",
     "O", "P", "Q", "R", "S", "T", "U", "V", "W", "X", "Y", "Z"}

\* str(year)[-1]
year_code_of(y) == Digits[(y % 10) + 1]

\* int(year_code) for a one-digit string
int_of_digit(c) == (CHOOSE i \in 1..10 : Digits[i] = c) - 1

\* the value of a sequence of decimal digits
RECURSIVE DecimalValue(_)
DecimalValue(s) ==
    IF s = <<>> THEN 0
    ELSE 10 * DecimalValue(SubSeq(s, 1, Len(s) - 1)) + int_of_digit(s[Len(s)])

AllDigits(s) == \A i \in 1..Len(s) : s[i] \in Range(Digits)

get_contract_symbol(root, expiry_date) ==
    root \o <<contract_months[month_of(expiry_date)],
              year_code_of(year_of(expiry_date))>>

get_roll_date(y, m) == get_first_trading_day(datetime(y, m, 1))

\* variant: a date on the roll date still gets the previous month's contract
get_front_month_contract_late(root, date) ==
    LET m == month_of(date)
        y == year_of(date)
    IN IF date <= get_roll_date(y, m)
       THEN (IF m = 1 THEN get_contract_symbol(root, datetime(y - 1, 12, 1))
                      ELSE get_contract_symbol(root, datetime(y, m - 1, 1)))
       ELSE get_contract_symbol(root, datetime(y, m, 1))

get_front_month_contract(root, date) ==
    LET current_month_ == month_of(date)
        current_year_ == year_of(date)
        roll_date == get_roll_date(current_year_, current_month_)
        contract_month == IF date < roll_date
                          THEN (IF current_month_ = 1 THEN 12 ELSE current_month_ - 1)
                          ELSE current_month_
        contract_year == IF date < roll_date /\ current_month_ = 1
                         THEN current_year_ - 1 ELSE current_year_
    IN get_contract_symbol(root, datetime(contract_year, contract_month, 1))

\* utils.symbol_utils.parse_futures_symbol: ^([A-Z]+)([FGHJKMNQUVXZ])(\d)$
parse_futures_symbol(symbol) ==
    LET n == Len(symbol)
    IN IF /\ n >= 3
          /\ symbol[n] \in Range(Digits)
          /\ symbol[n - 1] \in Range(contract_months)
          /\ \A i \in 1..(n - 2) : symbol[i] \in UpperCase
       THEN <<SubSeq(symbol, 1, n - 2), symbol[n - 1], symbol[n]>>
       ELSE NONE

RECURSIVE LastTradingFrom(_)
LastTradingFrom(n) == IF is_trading_day(n) THEN n ELSE LastTradingFrom(n - 1)

\* get_expiry_date: [ok |-> TRUE, value |-> date] or the exception raised
get_expiry_date(contract_symbol) ==
    LET parts == parse_futures_symbol(contract_symbol)
    IN IF parts = NONE
       THEN [ok |-> FALSE, exception |-> "ValueError"]
       ELSE LET month_num == CHOOSE num \in 1..12 : contract_months[num] = parts[2]
                y == 2020 + int_of_digit(parts[3])
                expiry_month == IF month_num = 1 THEN 12 ELSE month_num - 1
                expiry_year == IF month_num = 1 THEN y - 1 ELSE y
                last_day == days_in_month(expiry_year, expiry_month)
            IN [ok |-> TRUE,
                value |-> LastTradingFrom(datetime(expiry_year, expiry_month, last_day))]

RECURSIVE RollOver(_, _)
\* while target_month > 12: target_month -= 12; target_year += 1
RollOver(target_month, target_year) ==
    IF target_month > 12 THEN RollOver(target_month - 12, target_year + 1)
    ELSE <<target_month, target_year>>

get_m_plus_n_contract(root, base_date, n) ==
    LET t == RollOver(month_of(base_date) + n, year_of(base_date))
    IN get_contract_symbol(root, datetime(t[2], t[1], 1))

(***************************************************************************)
(* Specification of get_front_month_contract: it is asked for a date and   *)
(* then for each following calendar day.                                   *)
(***************************************************************************)
\* the number of consecutive days asked for
MaxDays == 75

\* FuturesManager(root_symbol=...): the default, the options root and a
\* --symbol typed in lower case
Roots == {<<"H", "O">>, <<"O", "H">>, <<"h", "o">>}

\* the first dates asked for: before the December 2021 roll (the new year of
\* 2022 is observed on Friday 2021-12-31 and the January roll date is the
\* 3rd) and before the September 2025 roll (the 1st is Labor Day)
FrontMonthStarts == {datetime(2021, 11, 20), datetime(2025, 8, 20)}

CalibrationIdle ==
    /\ expected = NONE
    /\ validation_results = EmptyDict
    /\ generated = NONE
    /\ results = EmptyDict
    /\ params = EmptyDict
    /\ refiner = EmptyDict
    /\ history = <<>>
    /\ heap = <<>>
    /\ max_iterations = 0
    /\ success_threshold = One
    /\ iteration = 0
    /\ best_score = Zero
    /\ best_iteration = 0
    /\ files = EmptyDict
    /\ summary = NONE

InitFrontMonth ==
    /\ CalibrationIdle
    /\ BridgeIdle
    /\ CliIdle
    /\ pc = "front_month"
    /\ call = NoCall
    /\ root_symbol \in Roots
    /\ start_date \in FrontMonthStarts
    /\ end_date = NONE
    /\ trade_date = start_date
    /\ front_month = get_front_month_contract(root_symbol, trade_date)
    /\ current_year = NONE
    /\ current_month = NONE
    /\ roll_schedule = <<>>
    /\ roll_index = 0
    /\ selected_options = <<>>
    /\ options_cache = <<>>
    /\ spot_price_cache = <<>>

\* get_front_month_contract(date) for the day after the last one
FrontMonthNextDay ==
    /\ pc = "front_month"
    /\ trade_date < start_date + MaxDays
    /\ trade_date' = trade_date + 1
    /\ front_month' = get_front_month_contract(root_symbol, trade_date')
    /\ call' = [op |-> "get_front_month_contract"]
    /\ UNCHANGED <<root_symbol, start_date, end_date, current_year, current_month,
                   roll_schedule, roll_index, selected_options, options_cache,
                   spot_price_cache, pc>>
    /\ UNCHANGED <<calibrationVars, bridgeVars, cliVars>>

NextFrontMonth == FrontMonthNextDay

SpecFrontMonth == InitFrontMonth /\ [][NextFrontMonth]_vars

(***************************************************************************)
(* Claims about the front-month contract (SpecFrontMonth)                  *)
(***************************************************************************)
\* the days of month m of year y
DaysOfMonth(y, m) == datetime(y, m, 1)..(datetime(y, m, 1) + days_in_month(y, m) - 1)

\* n is the first trading day of its month
IsRollDate(n) ==
    /\ is_trading_day(n)
    /\ \A e \in DaysOfMonth(year_of(n), month_of(n)) : e < n => ~is_trading_day(e)

\* the latest roll date on or before n
LatestRoll(n) ==
    CHOOSE r \in (n - 45)..n :
        /\ IsRollDate(r)
        /\ \A q \in (r + 1)..n : ~IsRollDate(q)

\* the month code and year digit of the month of date n
MonthCodeOf(n) == <<contract_months[month_of(n)], year_code_of(year_of(n))>>

\* the front-month contract is the contract of the month of the latest roll
\* date: the previous month's before the month's roll date, else the month's
FrontMonthIsLatestRoll ==
    pc = "front_month" => front_month = root_symbol \o MonthCodeOf(LatestRoll(trade_date))

\* from one day to the next the contract changes exactly when the next day
\* is a roll date, so it is constant between two consecutive roll dates
FrontMonthChangesAtRoll ==
    [][pc = "front_month" =>
        ((front_month' # front_month) <=> IsRollDate(trade_date'))]_vars

RECURSIVE Binary(_)
\* the bits of a natural number
Binary(n) == IF n = 0 THEN <<>> ELSE Append(Binary(n \div 2), n % 2)

RECURSIVE ValueOfBits(_)
\* the number of up to 30 bits
ValueOfBits(b) ==
    IF b = <<>> THEN 0 ELSE 2 * ValueOfBits(SubSeq(b, 1, Len(b) - 1)) + b[Len(b)]

\* b without its leading zeros
StripZeroBits(b) ==
    LET ones == {i \in 1..Len(b) : b[i] = 1}
    IN IF ones = {} THEN <<>>
       ELSE SubSeq(b, CHOOSE i \in ones : \A j \in ones : i <= j, Len(b))

\* b + 1
Increment(b) ==
    LET zeros == {i \in 1..Len(b) : b[i] = 0}
        last == CHOOSE i \in zeros : \A j \in zeros : i >= j
    IN IF zeros = {} THEN <<1>> \o [i \in 1..Len(b) |-> 0]
       ELSE [i \in 1..Len(b) |-> IF i < last THEN b[i] ELSE IF i = last THEN 1 ELSE 0]

\* long numbers are computed in limbs of 15 bits, most significant first
LimbBits == 15
LimbBase == 32768
Limbs == 5

\* the bits of Limbs limbs
BitsOfLimbs(l) ==
    [i \in 1..(Limbs * LimbBits) |->
        (l[((i - 1) \div LimbBits) + 1] \div 2^(LimbBits - 1 - ((i - 1) % LimbBits))) % 2]

\* the limbs of up to Limbs * LimbBits bits
LimbsOfBits(b) ==
    LET padded == [i \in 1..(Limbs * LimbBits - Len(b)) |-> 0] \o b
    IN [k \in 1..Limbs |->
           ValueOfBits(SubSeq(padded, (k - 1) * LimbBits + 1, k * LimbBits))]

\* the bits of a significand
SignificandBits == 53

\* bits rounded to a significand; inexact tells that bits were already cut
\* off below; dropped is the number of bits rounded away
RoundBits(bits, inexact) ==
    LET b == StripZeroBits(bits)
        m == SubSeq(b, 1, SignificandBits)
        sticky == inexact \/ \E i \in (SignificandBits + 2)..Len(b) : b[i] = 1
        up == b[SignificandBits + 1] = 1 /\ (sticky \/ m[SignificandBits] = 1)
    IN IF Len(b) <= SignificandBits THEN [bits |-> b, dropped |-> 0]
       ELSE [bits |-> IF up THEN Increment(m) ELSE m,
             dropped |-> Len(b) - SignificandBits]

\* the bits after the binary point that a quotient is computed to: enough
\* for a significand and a rounding bit of any quotient of at least 1/128
QuotientBits == 60

\* the first QuotientBits bits after the binary point of r / d, for
\* r < d < 2^16, by long division in limbs, and the remainder left
FractionBits(r, d) ==
    LET r1 == (r * LimbBase) % d
        r2 == (r1 * LimbBase) % d
        r3 == (r2 * LimbBase) % d
        limbs == <<0, (r * LimbBase) \div d, (r1 * LimbBase) \div d,
                   (r2 * LimbBase) \div d, (r3 * LimbBase) \div d>>
    IN [bits |-> SubSeq(BitsOfLimbs(limbs), LimbBits + 1, Limbs * LimbBits),
        rem |-> (r3 * LimbBase) % d]

\* float(n) / d for a natural number n < 2^30 and a divisor 1 <= d < 2^16
\* with n / d >= 1/128
float_truediv(n, d) ==
    LET fraction == FractionBits(n % d, d)
        rounded == RoundBits(Binary(n \div d) \o fraction.bits, fraction.rem # 0)
    IN IF n = 0 THEN [bits |-> <<>>, exp |-> 0]
       ELSE [bits |-> rounded.bits, exp |-> rounded.dropped - QuotientBits]

\* the bits of the product of a significand b and k <= 128
TimesBits(b, k) ==
    LET l == LimbsOfBits(b)
        p5 == l[5] * k
        p4 == l[4] * k + (p5 \div LimbBase)
        p3 == l[3] * k + (p4 \div LimbBase)
        p2 == l[2] * k + (p3 \div LimbBase)
        p1 == l[1] * k + (p2 \div LimbBase)
    IN StripZeroBits(BitsOfLimbs(<<p1, p2 % LimbBase, p3 % LimbBase,
                                   p4 % LimbBase, p5 % LimbBase>>))

\* x * k for a float x and a natural number k <= 128
float_mul(x, k) ==
    LET rounded == RoundBits(TimesBits(x.bits, k), FALSE)
    IN [bits |-> rounded.bits, exp |-> x.exp + rounded.dropped]

\* int(x) for a float 0 <= x < 2^30: the fraction is cut off
int_of_float(x) ==
    IF x.exp >= 0 THEN ValueOfBits(x.bits \o [i \in 1..x.exp |-> 0])
    ELSE ValueOfBits(SubSeq(x.bits, 1, Len(x.bits) + x.exp))

\* round(x) for a float 0 <= x < 2^30: to the nearest integer, a half to the
\* even one
round_of_float(x) ==
    LET n == Len(x.bits)
        k == 0 - x.exp
        whole == IF k >= n THEN <<>> ELSE SubSeq(x.bits, 1, n - k)
        frac == IF k > n THEN [i \in 1..(k - n) |-> 0] \o x.bits
                ELSE SubSeq(x.bits, n - k + 1, n)
        up == /\ frac[1] = 1
              /\ \/ \E i \in 2..Len(frac) : frac[i] = 1
                 \/ (whole # <<>> /\ whole[Len(whole)] = 1)
    IN IF x.bits = <<>> THEN 0
       ELSE IF x.exp >= 0 THEN ValueOfBits(x.bits \o [i \in 1..x.exp |-> 0])
       ELSE ValueOfBits(whole) + (IF up THEN 1 ELSE 0)

RECURSIVE str_of_int(_)
\* str(n) for n >= 0
str_of_int(n) ==
    IF n < 10 THEN <<Digits[n + 1]>>
    ELSE Append(str_of_int(n \div 10), Digits[(n % 10) + 1])

(***************************************************************************)
(* OptionsManager.identify_monthly_options, with the loop of               *)
(* FuturesManager.get_roll_schedule it starts with.  Prices are in         *)
(* hundredths of a dollar, deltas in hundredths.                           *)
(***************************************************************************)
\* the longest requested period, in days
MaxSpan == 120

\* timedelta(days=62)
RollLookback == 62

\* self.target_delta = 0.15
target_delta == 15

\* the first days of the requested periods: that of the integration tests,
\* and one whose M+2 contracts reach into 2030
StartDates == {datetime(2021, 12, 1), datetime(2029, 10, 15)}

\* the lengths of the requested periods
Spans == {0, 31, 62, MaxSpan}

\* self.underlying_root = "HO"
underlying_root == <<"H", "O">>

\* the contracts the local file has options on: February and March 2022,
\* January and February 2030
CachedContracts == <<<<"G", "2">>, <<"H", "2">>, <<"F", "0">>, <<"G", "0">>>>

\* the symbols the local file has on a contract: the futures contract, two
\* calls, a put, and two symbols that are no options
SymbolsOn(contract) ==
    <<<<"H", "O">> \o contract,
      <<"O", "H">> \o contract \o <<" ", "C">> \o str_of_int(27500),
      <<"O", "H">> \o contract \o <<" ", "C">> \o str_of_int(30000),
      <<"O", "H">> \o contract \o <<" ", "P">> \o str_of_int(30000),
      <<"O", "H">> \o contract \o <<" ", "X">> \o str_of_int(27500),
      <<"O", "H">> \o contract \o <<" ", "C", "2", "x">>>>

RECURSIVE Flatten(_)
\* the sequences of a sequence, one after the other
Flatten(ss) == IF ss = <<>> THEN <<>> ELSE Head(ss) \o Flatten(Tail(ss))

\* local_data_cache.keys() of the local files: one with calls, one that is
\* not loaded, one with puts only
LocalCaches ==
    {Flatten([i \in 1..Len(CachedContracts) |-> SymbolsOn(CachedContracts[i])]),
     <<>>,
     [i \in 1..Len(CachedContracts) |->
         <<"O", "H">> \o CachedContracts[i] \o <<" ", "P">> \o str_of_int(30000)]}

\* the clients an OptionsManager is given: the bridge in local file mode,
\* and clients that answer with a call entry without a strike or raise
Clients ==
    {[use_local_file |-> TRUE, local_data_cache |-> c] : c \in LocalCaches}
        \cup {[use_local_file |-> FALSE, chain |-> <<[option_type |-> "C"]>>],
              [use_local_file |-> FALSE, raises |-> "Exception"]}

\* range(20000, 40000, 500)
SyntheticStrikes == [i \in 1..40 |-> 20000 + 500 * (i - 1)]

\* DatabentoBridge._build_options_chain_from_local_data: expiry_month is
\* <<year, month>> of 'YYYY-MM'; the strike float(n) / 10000.0 is written n
_build_options_chain_from_local_data(local_data_cache, underlying, expiry_month) ==
    LET option_prefix == IF underlying = <<"H", "O">> THEN <<"O", "H">> ELSE underlying
        futures_symbol == option_prefix
                              \o <<contract_months[expiry_month[2]],
                                   year_code_of(expiry_month[1])>>
        n == Len(futures_symbol)
        \* two parts, the first is futures_symbol, the second C or P and a number
        IsOption(symbol) ==
            /\ Cardinality({i \in 1..Len(symbol) : symbol[i] = " "}) = 1
            /\ Len(symbol) > n + 2
            /\ SubSeq(symbol, 1, n + 1) = Append(futures_symbol, " ")
            /\ symbol[n + 2] \in {"C", "P"}
            /\ AllDigits(SubSeq(symbol, n + 3, Len(symbol)))
        found == SelectSeq(local_data_cache, IsOption)
        options_chain ==
            [i \in 1..Len(found) |->
                [symbol |-> found[i],
                 underlying |-> futures_symbol,
                 strike |-> DecimalValue(SubSeq(found[i], n + 3, Len(found[i]))),
                 option_type |-> found[i][n + 2],
                 expiry |-> expiry_month]]
        synthetic ==
            [i \in 1..Len(SyntheticStrikes) |->
                [symbol |-> futures_symbol \o <<" ", "C">> \o str_of_int(SyntheticStrikes[i]),
                 underlying |-> futures_symbol,
                 strike |-> SyntheticStrikes[i],
                 option_type |-> "C",
                 expiry |-> expiry_month]]
    IN IF local_data_cache = <<>> THEN <<>>
       ELSE IF options_chain = <<>> /\ underlying \in {<<"H", "O">>, <<"O", "H">>}
       THEN synthetic
       ELSE options_chain

\* client.fetch_options_chain(underlying, expiry_month, trade_date): the
\* chain, or the exception raised
fetch_options_chain_of(client, underlying, expiry_month) ==
    IF client.use_local_file
    THEN [ok |-> TRUE,
          chain |-> _build_options_chain_from_local_data(client.local_data_cache,
                                                         underlying, expiry_month)]
    ELSE IF "chain" \in DOMAIN client THEN [ok |-> TRUE, chain |-> client.chain]
    ELSE [ok |-> FALSE, exception |-> client.raises]

\* variant: the cache is written but not read
InCacheNever(cache, key) == FALSE

\* if cache_key in self.options_cache, if date_str in self.spot_price_cache
InCache(cache, key) == key \in DOMAIN cache

\* OptionsManager._get_options_chain: the chain returned, the cache
\* afterwards and whether the client was asked
_get_options_chain(cache, underlying_contract, expiry_month, date, client) ==
    LET cache_key == <<underlying_contract, expiry_month, date>>
        answer == fetch_options_chain_of(client, underlying_root, expiry_month)
    IN IF InCache(cache, cache_key)
       THEN [chain |-> cache[cache_key], options_cache |-> cache, fetched |-> FALSE]
       ELSE IF answer.ok
       THEN [chain |-> answer.chain,
             options_cache |-> (cache_key :> answer.chain) @@ cache,
             fetched |-> TRUE]
       ELSE [chain |-> <<>>, options_cache |-> cache, fetched |-> TRUE]

\* return 2.5  # Fallback price
FallbackPrice == 250

\* OptionsManager._get_spot_price, the client answering with a price or
\* raising: the price returned, the cache afterwards and whether the client
\* was asked
_get_spot_price(cache, date, answer) ==
    IF InCache(cache, date)
    THEN [spot_price |-> cache[date], spot_price_cache |-> cache, fetched |-> FALSE]
    ELSE IF answer.ok
    THEN [spot_price |-> answer.price,
          spot_price_cache |-> (date :> answer.price) @@ cache,
          fetched |-> TRUE]
    ELSE [spot_price |-> FallbackPrice, spot_price_cache |-> cache, fetched |-> TRUE]

\* the delta DeltaCalculator.calculate_delta gives a call of a strike at the
\* spot price, time and volatility of a roll date: the higher the strike,
\* the lower the delta
calculate_delta(strike) ==
    IF strike <= 25000 THEN 50
    ELSE IF strike <= 27500 THEN 30
    ELSE IF strike <= 30000 THEN 14
    ELSE 5

\* the roll event of month m of year y (get_roll_schedule, loop body)
RollEvent(root, y, m) ==
    LET prev_month == IF m = 1 THEN 12 ELSE m - 1
        prev_year == IF m = 1 THEN y - 1 ELSE y
    IN [roll_date |-> get_roll_date(y, m),
        from_contract |-> get_contract_symbol(root, datetime(prev_year, prev_month, 1)),
        to_contract |-> get_contract_symbol(root, datetime(y, m, 1)),
        month |-> m,
        year |-> y]

\* variant: the loop also stops at a roll date that is the end date
RollBeyondOrAt(roll_date, end) == roll_date >= end

\* if roll_date > end_date: break
RollBeyond(roll_date, end) == roll_date > end

\* OptionsManager._contract_to_expiry_month: <<year, month>> of 'YYYY-MM'
contract_to_expiry_month(root, contract_symbol) ==
    LET n == Len(root)
    IN IF ~(Len(contract_symbol) >= n /\ SubSeq(contract_symbol, 1, n) = root)
       THEN [ok |-> FALSE, exception |-> "ValueError"]
       ELSE IF Len(contract_symbol) - n # 2
       THEN [ok |-> FALSE, exception |-> "ValueError"]
       ELSE IF contract_symbol[n + 1] \notin Range(contract_months)
       THEN [ok |-> FALSE, exception |-> "ValueError"]
       ELSE [ok |-> TRUE,
             value |-> <<2020 + int_of_digit(contract_symbol[n + 2]),
                         CHOOSE num \in 1..12 :
                             contract_months[num] = contract_symbol[n + 1]>>]

RECURSIVE BestOf(_, _, _)
\* DeltaCalculator.find_target_delta_strike: the first strike whose delta is
\* strictly nearer the target than those before it; best is <<strike, delta,
\* distance>>, <<>> before the first strike
BestOf(options, target, best) ==
    IF options = <<>> THEN best
    ELSE LET distance == Abs(options[1].delta - target)
         IN BestOf(Tail(options), target,
                   IF best = <<>> \/ distance < best[3]
                   THEN <<options[1].strike, options[1].delta, distance>>
                   ELSE best)

\* f"{n:05d}" for n >= 0
zero_padded5(n) ==
    LET s == str_of_int(n)
    IN [i \in 1..(5 - Len(s)) |-> "0"] \o s

\* variant: the strike is written in ten-thousandths of a dollar
_build_option_symbol_10000(underlying_contract, strike, option_type) ==
    underlying_contract \o <<" ", option_type>> \o zero_padded5(strike)

\* OptionsManager._build_option_symbol: strike_int = int(round(strike * 100)),
\* f"{underlying_contract} {option_type}{strike_int:05d}"
_build_option_symbol(underlying_contract, strike, option_type) ==
    LET strike_int == round_of_float(float_mul(float_truediv(strike, 10000), 100))
    IN underlying_contract \o <<" ", option_type>> \o zero_padded5(strike_int)

\* OptionsManager._find_target_delta_option: the option (found), None (not
\* found), or the exception raised (not ok)
find_target_delta_option(root, target_contract, options_chain) ==
    LET expiry_month == contract_to_expiry_month(root, target_contract)
        call_options == SelectSeq(options_chain,
                                  LAMBDA opt : Get(opt, "option_type", "C") = "C")
        expiry == get_expiry_date(target_contract)
    IN IF ~expiry_month.ok THEN expiry_month
       ELSE IF options_chain = <<>> THEN [ok |-> TRUE, found |-> FALSE]
       ELSE IF call_options = <<>> THEN [ok |-> TRUE, found |-> FALSE]
       ELSE IF \E i \in 1..Len(call_options) : "strike" \notin DOMAIN call_options[i]
       THEN [ok |-> FALSE, exception |-> "KeyError"]
       ELSE IF ~expiry.ok THEN expiry
       ELSE LET strikes == [i \in 1..Len(call_options) |->
                                [strike |-> call_options[i].strike,
                                 delta |-> calculate_delta(call_options[i].strike)]]
                best == BestOf(strikes, target_delta, <<>>)
            IN [ok |-> TRUE,
                found |-> TRUE,
                value |-> [symbol |-> _build_option_symbol(target_contract, best[1], "C"),
                           strike |-> best[1],
                           delta |-> best[2],
                           expiry_date |-> expiry.value]]

\* OptionsManager._get_option_last_trading_day, for a contract whose expiry
\* date _find_target_delta_option has just computed
get_option_last_trading_day(underlying_contract) ==
    get_expiry_date(underlying_contract).value

\* variant: only ValueError is caught
CatchesValueError(exception) == exception = "ValueError"

\* except Exception as e
Catches(exception) == TRUE

\* the body of the for loop of identify_monthly_options for a roll event on
\* or after start_date: the list of selections afterwards, what happened
\* and whether an exception left the loop
process_roll(root, selected, roll_event, spot_price, options_chain) ==
    LET roll_date == roll_event.roll_date
        target_contract == get_m_plus_n_contract(root, roll_date, 2)
        found == find_target_delta_option(root, target_contract, options_chain)
    IN IF ~found.ok
       THEN [selected_options |-> selected, outcome |-> "error",
             raised |-> ~Catches(found.exception)]
       ELSE IF ~found.found
       THEN [selected_options |-> selected, outcome |-> "none", raised |-> FALSE]
       ELSE [selected_options |->
                 Append(selected,
                        [symbol |-> found.value.symbol,
                         underlying_contract |-> target_contract,
                         strike |-> found.value.strike,
                         selection_date |-> roll_date,
                         start_trading |-> roll_date,
                         end_trading |-> get_option_last_trading_day(target_contract),
                         target_delta |-> target_delta,
                         actual_delta |-> found.value.delta,
                         spot_price_at_selection |-> spot_price,
                         roll_month |-> month_of(roll_date),
                         roll_year |-> year_of(roll_date)]),
             outcome |-> "selected", raised |-> FALSE]

InitManagers ==
    /\ CalibrationIdle
    /\ BridgeIdle
    /\ CliIdle
    /\ pc = "managers"
    /\ call = NoCall
    /\ root_symbol \in Roots
    /\ start_date \in StartDates
    /\ \E span \in Spans : end_date = start_date + span
    /\ trade_date = NONE
    /\ front_month = NONE
    /\ current_year = NONE
    /\ current_month = NONE
    /\ roll_schedule = <<>>
    /\ roll_index = 0
    /\ selected_options = <<>>
    /\ options_cache = <<>>
    /\ spot_price_cache = <<>>

\* identify_monthly_options(start_date, end_date) up to the first test of
\* the loop of get_roll_schedule
IdentifyMonthlyOptions ==
    /\ pc = "managers"
    /\ selected_options' = <<>>
    /\ roll_schedule' = <<>>
    /\ LET roll_start == start_date - RollLookback
       IN /\ current_year' = year_of(roll_start)
          /\ current_month' = month_of(roll_start)
    /\ pc' = "get_roll_schedule"
    /\ call' = [op |-> "identify_monthly_options", rolls |-> <<>>]
    /\ UNCHANGED <<root_symbol, trade_date, front_month, start_date, end_date,
                   roll_index, options_cache, spot_price_cache>>
    /\ UNCHANGED <<calibrationVars, bridgeVars, cliVars>>

\* one iteration of the while loop of get_roll_schedule
RollScheduleIterate ==
    /\ pc = "get_roll_schedule"
    /\ LET roll_date == get_roll_date(current_year, current_month)
       IN IF RollBeyond(roll_date, end_date)
          THEN /\ pc' = "identify"
               /\ roll_index' = 1
               /\ call' = [op |-> "get_roll_schedule", rolls |-> <<>>]
               /\ UNCHANGED <<roll_schedule, current_year, current_month>>
          ELSE /\ roll_schedule' =
                      Append(roll_schedule,
                             RollEvent(root_symbol, current_year, current_month))
               /\ current_month' = IF current_month = 12 THEN 1 ELSE current_month + 1
               /\ current_year' = IF current_month = 12 THEN current_year + 1
                                  ELSE current_year
               /\ UNCHANGED <<pc, roll_index, call>>
    /\ UNCHANGED <<root_symbol, trade_date, front_month, start_date, end_date,
                   selected_options, options_cache, spot_price_cache>>
    /\ UNCHANGED <<calibrationVars, bridgeVars, cliVars>>

\* a roll event before start_date: continue
SkipEarlyRoll ==
    /\ pc = "identify"
    /\ roll_index <= Len(roll_schedule)
    /\ roll_schedule[roll_index].roll_date < start_date
    /\ roll_index' = roll_index + 1
    /\ call' = [op |-> "skip_roll", rolls |-> call.rolls]
    /\ UNCHANGED <<root_symbol, trade_date, front_month, start_date, end_date,
                   current_year, current_month, roll_schedule, selected_options,
                   options_cache, spot_price_cache, pc>>
    /\ UNCHANGED <<calibrationVars, bridgeVars, cliVars>>

\* a roll event on or after start_date, with the client the manager was
\* given; the client answers get_spot_price with the futures price
ProcessRoll(client) ==
    /\ pc = "identify"
    /\ roll_index <= Len(roll_schedule)
    /\ roll_schedule[roll_index].roll_date >= start_date
    /\ LET roll_date == roll_schedule[roll_index].roll_date
           target_contract == get_m_plus_n_contract(root_symbol, roll_date, 2)
           spot == _get_spot_price(spot_price_cache, roll_date,
                                   [ok |-> TRUE, price |-> FuturesPrice])
           expiry_month == contract_to_expiry_month(root_symbol, target_contract)
           got == IF expiry_month.ok
                  THEN _get_options_chain(options_cache, target_contract,
                                          expiry_month.value, roll_date, client)
                  ELSE [chain |-> <<>>, options_cache |-> options_cache,
                        fetched |-> FALSE]
           r == process_roll(root_symbol, selected_options,
                             roll_schedule[roll_index], spot.spot_price, got.chain)
       IN /\ selected_options' = r.selected_options
          /\ spot_price_cache' = spot.spot_price_cache
          /\ options_cache' = got.options_cache
          /\ pc' = IF r.raised THEN "raised" ELSE "identify"
          /\ roll_index' = IF r.raised THEN roll_index ELSE roll_index + 1
          /\ call' = [op |-> "process_roll",
                      rolls |-> Append(call.rolls,
                                       [roll_date |-> roll_date,
                                        options_chain |-> got.chain,
                                        outcome |-> r.outcome])]
    /\ UNCHANGED <<root_symbol, trade_date, front_month, start_date, end_date,
                   current_year, current_month, roll_schedule>>
    /\ UNCHANGED <<calibrationVars, bridgeVars, cliVars>>

\* return selected_options
ReturnSelected ==
    /\ pc = "identify"
    /\ roll_index > Len(roll_schedule)
    /\ pc' = "returned"
    /\ call' = [op |-> "return", rolls |-> call.rolls]
    /\ UNCHANGED managerVars
    /\ UNCHANGED <<calibrationVars, bridgeVars, cliVars>>

NextManagers ==
    \/ IdentifyMonthlyOptions
    \/ RollScheduleIterate
    \/ SkipEarlyRoll
    \/ \E client \in Clients : ProcessRoll(client)
    \/ ReturnSelected

SpecManagers == InitManagers /\ [][NextManagers]_vars

(***************************************************************************)
(* Claims about the roll schedule and the monthly selections               *)
(* (SpecManagers)                                                          *)
(***************************************************************************)
\* months counted from year 0
MonthNumber(y, m) == y * 12 + m

\* the iterations the loop of get_roll_schedule has left at most
RollMeasure ==
    MonthNumber(year_of(end_date), month_of(end_date)) + 1
        - MonthNumber(current_year, current_month)

\* the roll dates of a schedule, in its order
RollDates(schedule) == [i \in 1..Len(schedule) |-> schedule[i].roll_date]

\* the first day of the month the schedule starts with
ScheduleStart ==
    LET roll_start == start_date - RollLookback
    IN datetime(year_of(roll_start), month_of(roll_start), 1)

\* the contract one month code after the contract: Z is followed by F of the
\* next year
NextContract(symbol) ==
    LET n == Len(symbol)
        num == CHOOSE i \in 1..12 : contract_months[i] = symbol[n - 1]
    IN IF num = 12
       THEN SubSeq(symbol, 1, n - 2)
                \o <<"F", Digits[((int_of_digit(symbol[n]) + 1) % 10) + 1]>>
       ELSE SubSeq(symbol, 1, n - 2) \o <<contract_months[num + 1], symbol[n]>>

\* the loop of get_roll_schedule ends: its measure is never negative and
\* every iteration that stays in the loop decreases it
RollScheduleTerminates ==
    /\ [](pc = "get_roll_schedule" => RollMeasure >= 0)
    /\ [][pc = "get_roll_schedule" /\ pc' = "get_roll_schedule"
             => RollMeasure' < RollMeasure]_vars

\* the schedule get_roll_schedule returns holds exactly the first trading
\* days from the starting month on that are not after end_date, in
\* increasing order, and each to_contract is one month code after the one
\* before
RollScheduleComplete ==
    call.op = "get_roll_schedule" =>
        LET dates == RollDates(roll_schedule)
        IN /\ \A r \in ScheduleStart..end_date : IsRollDate(r) => r \in Range(dates)
           /\ \A i \in 1..Len(dates) : IsRollDate(dates[i]) /\ dates[i] <= end_date
           /\ \A i \in 1..(Len(dates) - 1) : dates[i] < dates[i + 1]
           /\ \A i \in 1..(Len(dates) - 1) :
                  roll_schedule[i + 1].to_contract
                      = NextContract(roll_schedule[i].to_contract)

\* C12: get_roll_schedule(start, end) terminates for start <= end, omits no
\* roll date <= end from the month 62 days before start on, emits the roll
\* dates in strictly increasing order with none after end, and consecutive
\* to_contract values are one month code apart (Z, then F of the next year)
RollScheduleIsComplete == [](RollScheduleComplete) /\ RollScheduleTerminates

\* a returned schedule that starts before the requested period, crosses a
\* new year and has every roll date up to the end date
ScheduleOverNewYear ==
    /\ call.op = "get_roll_schedule"
    /\ \E i \in 1..(Len(roll_schedule) - 1) :
           /\ roll_schedule[i].month = 12
           /\ roll_schedule[i + 1].month = 1
           /\ roll_schedule[i + 1].year = roll_schedule[i].year + 1
    /\ roll_schedule[1].roll_date < start_date
    /\ roll_schedule[Len(roll_schedule)].roll_date <= end_date

\* the in-range roll dates: the first trading days within [start, end]
InRangeRolls == {r \in start_date..end_date : IsRollDate(r)}

\* the greatest trading day of month m of year y
LastTradingDayOfMonth(y, m) ==
    CHOOSE n \in DaysOfMonth(y, m) :
        /\ is_trading_day(n)
        /\ \A e \in DaysOfMonth(y, m) : e > n => ~is_trading_day(e)

\* <<month, year>> n months after the month of date
MonthAfter(date, n) ==
    LET total == MonthNumber(year_of(date), month_of(date)) + n - 1
    IN <<(total % 12) + 1, total \div 12>>

\* the expiry date of the contract delivered two months after the month of
\* roll_date: the last trading day of the month before its delivery month
UnderlyingExpiry(roll_date) ==
    LET before == MonthAfter(roll_date, 1)
    IN LastTradingDayOfMonth(before[2], before[1])

\* the roll dates of the selections, in their order
StartTradings == [i \in 1..Len(selected_options) |-> selected_options[i].start_trading]

\* C13: identify_monthly_options returns one selection for every in-range
\* roll date, in roll-date order, each with start_trading equal to its roll
\* date and end_trading equal to the expiry date of its M+2 contract, so
\* that start_trading <= end_trading
OneSelectionPerRollMonth ==
    pc = "returned" =>
        /\ Len(selected_options) = Cardinality(InRangeRolls)
        /\ Range(StartTradings) = InRangeRolls
        /\ \A i \in 1..(Len(selected_options) - 1) :
               StartTradings[i] < StartTradings[i + 1]
        /\ \A i \in 1..Len(selected_options) :
               /\ selected_options[i].end_trading
                      = UnderlyingExpiry(selected_options[i].start_trading)
               /\ selected_options[i].start_trading <= selected_options[i].end_trading

\* an error at one roll date leaves the selections as they are and the loop
\* goes on to the next roll date
ErrorStepSkipsRoll ==
    [][(pc = "identify" /\ call'.op = "process_roll"
            /\ call'.rolls[Len(call'.rolls)].outcome = "error")
        => (/\ selected_options' = selected_options
            /\ roll_index' = roll_index + 1
            /\ pc' = "identify")]_vars

\* no exception leaves identify_monthly_options, and when it returns every
\* roll event has been gone through
AllRollsProcessed ==
    /\ pc # "raised"
    /\ pc = "returned" =>
           /\ roll_index = Len(roll_schedule) + 1
           /\ {call.rolls[i].roll_date : i \in 1..Len(call.rolls)}
                  = {roll_schedule[i].roll_date : i \in
                         {j \in 1..Len(roll_schedule) :
                              roll_schedule[j].roll_date >= start_date}}
           /\ \A i \in 1..Len(call.rolls) :
                  call.rolls[i].outcome = "error"
                      => call.rolls[i].roll_date \notin Range(StartTradings)

\* C14: an error while processing one roll date is caught and skipped: the
\* month contributes no selection, the earlier selections are kept, the
\* later roll dates are still processed and the call does not raise
RollErrorIsSkipped == [](AllRollsProcessed) /\ ErrorStepSkipsRoll

\* a returned call in which a roll date raised an error between two roll
\* dates that were selected
ErrorBetweenSelections ==
    /\ pc = "returned"
    /\ \E i, j, k \in 1..Len(call.rolls) :
           /\ i < j /\ j < k
           /\ call.rolls[i].outcome = "selected"
           /\ call.rolls[j].outcome = "error"
           /\ call.rolls[k].outcome = "selected"
           /\ call.rolls[i].roll_date \in Range(StartTradings)
           /\ call.rolls[k].roll_date \in Range(StartTradings)

(***************************************************************************)
(* The data bridge: DatabentoBridge (src/src/databento_client.py).         *)
(* Times are milliseconds of time.time(); dates are day ordinals, standing *)
(* for their '%Y-%m-%d' strings.                                           *)
(***************************************************************************)
\* the latest clock value at which an operation of the bridge starts
MaxClock == 1150

\* self.rate_limit_delay = 0.1, in milliseconds
rate_limit_delay == 100

\* time.time() when the bridge is constructed
StartTime == 1000

\* the time a request of the HTTP session or of the vendor client takes
RequestLatencies == {20}

\* the time that passes between two operations of the bridge
TickSteps == {50, 100}

\* by how much time.sleep can exceed the time asked for
Oversleeps == {0, 10}

HO == <<"H", "O">>
OH == <<"O", "H">>
ES == <<"E", "S">>
CL == <<"C", "L">>

\* the roots and contracts asked for
BridgeSymbols == {HO, OH, ES, CL, <<"N", "G">>, <<"H", "O", "Q", "5">>}

\* the <<start_date, end_date>> asked for; get_spot_price asks for one day
FetchWindows ==
    {<<datetime(2024, 2, 1), datetime(2024, 2, 1)>>,
     <<datetime(2025, 6, 2), datetime(2025, 6, 3)>>}

\* the option symbols whose history is asked for
OptionSymbols == {<<"O", "H", "F", "2", " ", "C", "2", "7", "8", "0", "0">>}

\* the API keys given to the constructor or found in the environment
ApiKeys == {NONE, "db-key", "mock_mode"}

\* the session headers set by __init__ for a key
AuthorizationHeaders(key) ==
    {<<"Authorization", <<"Bearer", key>>>>,
     <<"Content-Type", <<"application/json">>>>}

\* DatabentoBridge.__init__: the key given or the one of the environment;
\* local file mode, mock mode, or the vendor client
DatabentoBridge(api_key, environ_key, use_local_file, DATABENTO_AVAILABLE, historical_raises) ==
    LET key == IF api_key # NONE THEN api_key ELSE environ_key
        mode == IF use_local_file
                THEN [mock_mode |-> FALSE, client |-> FALSE]
                ELSE IF key = NONE \/ ~DATABENTO_AVAILABLE \/ key = "mock_mode"
                THEN [mock_mode |-> TRUE, client |-> FALSE]
                ELSE IF historical_raises
                THEN [mock_mode |-> TRUE, client |-> FALSE]
                ELSE [mock_mode |-> FALSE, client |-> TRUE]
    IN [api_key |-> key,
        use_local_file |-> use_local_file,
        mock_mode |-> mode.mock_mode,
        client |-> mode.client,
        headers |-> IF key # NONE /\ mode.mock_mode
                    THEN AuthorizationHeaders(key) ELSE {},
        last_request_time |-> 0]

\* variant: the request goes out without waiting
rate_limit_without_sleep(b, now, oversleep) ==
    [bridge |-> [b EXCEPT !.last_request_time = now], clock |-> now]

\* DatabentoBridge._rate_limit at time now: the bridge and the time after it
rate_limit(b, now, oversleep) ==
    LET elapsed == now - b.last_request_time
        woke == IF elapsed < rate_limit_delay
                THEN now + (rate_limit_delay - elapsed) + oversleep
                ELSE now
    IN [bridge |-> [b EXCEPT !.last_request_time = woke], clock |-> woke]

\* DatabentoBridge._make_request: the mock response in mock mode, otherwise
\* a rate-limited request over the session, whose outcome is the server's
make_request(b, now, oversleep, log, request_params, http_outcome) ==
    IF b.mock_mode
    THEN [bridge |-> b, clock |-> now, http_log |-> log, response |-> "mock",
          sent |-> <<>>]
    ELSE LET limited == rate_limit(b, now, oversleep)
             request == [entered |-> now,
                         time |-> limited.clock,
                         headers |-> b.headers,
                         outcome |-> http_outcome]
         IN [bridge |-> limited.bridge,
             clock |-> limited.clock,
             http_log |-> Append(log, request),
             response |-> http_outcome,
             sent |-> <<request @@ [params |-> request_params]>>]

BridgeMonthCodes == {"F", "G", "H", "J", "K", "M", "N", "Q", "U", "V", "X", "Z"}

\* DatabentoBridge._is_explicit_contract
is_explicit_contract(symbol) ==
    /\ Len(symbol) >= 4
    /\ symbol[Len(symbol) - 1] \in BridgeMonthCodes
    /\ symbol[Len(symbol)] \in Range(Digits)

\* the symbol fetch_futures_continuous maps the root to
futures_symbol(root, start) ==
    LET y == year_of(start)
        m == month_of(start)
    IN IF is_explicit_contract(root) THEN root
       ELSE IF root = OH \/ root = HO THEN HO
       ELSE IF root = ES
       THEN IF y = 2024 /\ m <= 3 THEN <<"E", "S", "H", "4">>
            ELSE IF y = 2024 /\ m <= 6 THEN <<"E", "S", "M", "4">>
            ELSE IF y = 2024 /\ m <= 9 THEN <<"E", "S", "U", "4">>
            ELSE <<"E", "S", "Z", "4">>
       ELSE IF root = CL
       THEN IF y = 2024 /\ m <= 2 THEN <<"C", "L", "G", "4">>
            ELSE IF y = 2024 /\ m <= 5 THEN <<"C", "L", "K", "4">>
            ELSE <<"C", "L", "N", "4">>
       ELSE root

\* symbol.startswith('HO')
StartsWithHO(symbol) == Len(symbol) >= 2 /\ SubSeq(symbol, 1, 2) = HO

Continuous(symbol) == symbol \o <<".", "c", ".", "0">>

\* the timeseries.get_range call fetch_futures_continuous makes on the
\* vendor client
client_futures_request(symbol, start, end) ==
    LET end_date_api == IF end <= start THEN start + 1 ELSE end
    IN [dataset |-> "GLBX.MDP3",
        schema |-> "ohlcv-1d",
        symbols |-> IF StartsWithHO(symbol) THEN Continuous(HO)
                    ELSE IF is_explicit_contract(symbol) THEN symbol
                    ELSE Continuous(symbol),
        stype_in |-> IF StartsWithHO(symbol) THEN "continuous"
                     ELSE IF is_explicit_contract(symbol) THEN "raw_symbol"
                     ELSE "continuous",
        start |-> start,
        end |-> end_date_api]

\* the parameters of the HTTP request of fetch_futures_continuous and of
\* fetch_option_history
http_params(schema, symbol, start, end) ==
    [dataset |-> "GLBX.MDP3",
     schema |-> schema,
     symbols |-> symbol,
     start |-> start,
     end |-> end]

\* the timeseries.get_range call fetch_option_history makes on the vendor
\* client
client_history_request(schema, symbol, start, end) ==
    [dataset |-> "GLBX.MDP3",
     schema |-> schema,
     symbols |-> symbol,
     start |-> start,
     end |-> IF end <= start THEN start + 1 ELSE end]

\* DatabentoBridge._mock_symbology_response: the synthetic chain of calls,
\* strikes in cents for heating oil and crude oil, in points otherwise
mock_symbology_response(underlying) ==
    LET ladder == IF underlying \in {OH, HO} THEN [first |-> 200, step |-> 25, n |-> 8]
                  ELSE IF underlying = ES THEN [first |-> 4200, step |-> 50, n |-> 12]
                  ELSE IF underlying = CL THEN [first |-> 6000, step |-> 200, n |-> 15]
                  ELSE [first |-> 9000, step |-> 500, n |-> 4]
    IN [i \in 1..ladder.n |->
           [underlying |-> underlying,
            strike |-> ladder.first + (i - 1) * ladder.step,
            option_type |-> "C"]]

\* the request to the vendor client or to the server comes back with data,
\* without data, or fails
Outcomes == {"data", "empty", "error"}

\* the tail of fetch_futures_continuous and of fetch_option_history: the
\* HTTP request (or the mock response) and the table made of the response
http_fallback(b, now, oversleep, log, request_params, http_outcome) ==
    LET made == make_request(b, now, oversleep, log, request_params, http_outcome)
    IN [bridge |-> made.bridge,
        clock |-> made.clock,
        http_log |-> made.http_log,
        sent |-> made.sent,
        result |-> IF made.response = "mock" THEN "mock"
                   ELSE IF made.response = "data" THEN "http"
                   ELSE "empty"]

InitBridge ==
    /\ CalibrationIdle
    /\ ManagersIdle
    /\ CliIdle
    /\ \E api_key \in ApiKeys, environ_key \in {NONE, "env-key"},
          use_local_file \in BOOLEAN, DATABENTO_AVAILABLE \in BOOLEAN,
          historical_raises \in BOOLEAN :
           bridge = DatabentoBridge(api_key, environ_key, use_local_file,
                                    DATABENTO_AVAILABLE, historical_raises)
    /\ clock = StartTime
    /\ http_log = <<>>
    /\ pc = "bridge"
    /\ call = NoCall

BridgeUnchanged ==
    UNCHANGED <<calibrationVars, managerVars, cliVars, pc>>

\* time passes between two operations
BridgeTick(d) ==
    /\ pc = "bridge"
    /\ clock < MaxClock
    /\ clock' = clock + d
    /\ UNCHANGED <<bridge, http_log, call>>
    /\ BridgeUnchanged

\* DatabentoBridge.fetch_futures_continuous(root, start_date, end_date)
FetchFuturesContinuous(root, window, client_outcome, http_outcome, oversleep, latency) ==
    LET symbol == futures_symbol(root, window[1])
        asked == [op |-> "fetch_futures_continuous", root |-> root,
                  start |-> window[1], end |-> window[2], raised |-> FALSE]
        uses_client == ~bridge.mock_mode /\ bridge.client
        request == client_futures_request(symbol, window[1], window[2])
        fallback_params == http_params("ohlcv-1d", symbol, window[1], window[2])
    IN /\ pc = "bridge"
       /\ clock < MaxClock
       /\ IF bridge.use_local_file
          THEN /\ client_outcome = "data" /\ http_outcome = "data" /\ oversleep = 0
               /\ call' = asked @@ [client |-> <<>>, client_outcome |-> "none",
                                    http |-> <<>>, result |-> "local_file"]
               /\ clock' = clock + latency
               /\ UNCHANGED <<bridge, http_log>>
          ELSE IF uses_client /\ client_outcome # "error"
          THEN /\ http_outcome = "data" /\ oversleep = 0
               /\ call' = asked @@ [client |-> <<request>>,
                                    client_outcome |-> client_outcome,
                                    http |-> <<>>, result |-> "client"]
               /\ clock' = clock + latency
               /\ UNCHANGED <<bridge, http_log>>
          ELSE LET after == IF uses_client THEN clock + latency ELSE clock
                   fallback == http_fallback(bridge, after, oversleep, http_log,
                                             fallback_params, http_outcome)
               IN /\ uses_client \/ client_outcome = "data"
                  /\ bridge.mock_mode => http_outcome = "data" /\ oversleep = 0
                  /\ call' = asked @@
                         [client |-> IF uses_client THEN <<request>> ELSE <<>>,
                          client_outcome |-> IF uses_client THEN "error" ELSE "none",
                          http |-> fallback.sent,
                          result |-> fallback.result]
                  /\ bridge' = fallback.bridge
                  /\ http_log' = fallback.http_log
                  /\ clock' = fallback.clock + latency
    /\ BridgeUnchanged

\* DatabentoBridge.fetch_option_history(symbol, start_date, end_date, schema)
FetchOptionHistory(symbol, window, client_outcome, http_outcome, oversleep, latency) ==
    LET asked == [op |-> "fetch_option_history", root |-> symbol,
                  start |-> window[1], end |-> window[2], raised |-> FALSE]
        uses_client == ~bridge.mock_mode /\ bridge.client
        request == client_history_request("ohlcv-1d", symbol, window[1], window[2])
        fallback_params == http_params("ohlcv-1d", symbol, window[1], window[2])
    IN /\ pc = "bridge"
       /\ clock < MaxClock
       /\ IF bridge.use_local_file
          THEN /\ client_outcome = "data" /\ http_outcome = "data" /\ oversleep = 0
               /\ call' = asked @@ [client |-> <<>>, client_outcome |-> "none",
                                    http |-> <<>>, result |-> "local_file"]
               /\ clock' = clock + latency
               /\ UNCHANGED <<bridge, http_log>>
          ELSE IF uses_client /\ client_outcome # "error"
          THEN /\ http_outcome = "data" /\ oversleep = 0
               /\ call' = asked @@ [client |-> <<request>>,
                                    client_outcome |-> client_outcome,
                                    http |-> <<>>, result |-> "client"]
               /\ clock' = clock + latency
               /\ UNCHANGED <<bridge, http_log>>
          ELSE LET after == IF uses_client THEN clock + latency ELSE clock
                   fallback == http_fallback(bridge, after, oversleep, http_log,
                                             fallback_params, http_outcome)
               IN /\ uses_client \/ client_outcome = "data"
                  /\ bridge.mock_mode => http_outcome = "data" /\ oversleep = 0
                  /\ call' = asked @@
                         [client |-> IF uses_client THEN <<request>> ELSE <<>>,
                          client_outcome |-> IF uses_client THEN "error" ELSE "none",
                          http |-> fallback.sent,
                          result |-> fallback.result]
                  /\ bridge' = fallback.bridge
                  /\ http_log' = fallback.http_log
                  /\ clock' = fallback.clock + latency
    /\ BridgeUnchanged

\* DatabentoBridge.fetch_options_chain(underlying, expiry_month, trade_date):
\* the definitions request to the vendor client, the synthetic chain in
\* mock mode, and otherwise the request for all symbols
FetchOptionsChain(underlying, definitions_outcome, all_symbols_outcome, latency) ==
    LET asked == [op |-> "fetch_options_chain", root |-> underlying,
                  raised |-> FALSE]
        uses_client == ~bridge.mock_mode /\ bridge.client
        synthetic == mock_symbology_response(underlying)
    IN /\ pc = "bridge"
       /\ clock < MaxClock
       /\ IF bridge.use_local_file
          THEN /\ definitions_outcome = "data" /\ all_symbols_outcome = "data"
               /\ call' = asked @@ [definitions |-> "none", all_symbols |-> "none",
                                    result |-> "local_file", chain |-> <<>>]
               /\ clock' = clock + latency
          ELSE IF uses_client /\ definitions_outcome # "error"
          THEN /\ all_symbols_outcome = "data"
               /\ call' = asked @@ [definitions |-> definitions_outcome,
                                    all_symbols |-> "none",
                                    result |-> IF definitions_outcome = "data"
                                               THEN "definitions" ELSE "empty",
                                    chain |-> <<>>]
               /\ clock' = clock + latency
          ELSE IF bridge.mock_mode
          THEN /\ definitions_outcome = "data" /\ all_symbols_outcome = "data"
               /\ call' = asked @@ [definitions |-> "none", all_symbols |-> "none",
                                    result |-> "synthetic", chain |-> synthetic]
               /\ clock' = clock + latency
          ELSE /\ call' = asked @@ [definitions |-> "error",
                                    all_symbols |-> all_symbols_outcome,
                                    result |-> IF all_symbols_outcome = "data"
                                               THEN "all_symbols" ELSE "empty",
                                    chain |-> <<>>]
               /\ clock' = clock + latency + latency
    /\ UNCHANGED <<bridge, http_log>>
    /\ BridgeUnchanged

NextBridge ==
    \/ \E d \in TickSteps : BridgeTick(d)
    \/ \E root \in BridgeSymbols, window \in FetchWindows,
          client_outcome \in Outcomes, http_outcome \in Outcomes,
          oversleep \in Oversleeps, latency \in RequestLatencies :
           FetchFuturesContinuous(root, window, client_outcome, http_outcome,
                                  oversleep, latency)
    \/ \E symbol \in OptionSymbols, window \in FetchWindows,
          client_outcome \in Outcomes, http_outcome \in Outcomes,
          oversleep \in Oversleeps, latency \in RequestLatencies :
           FetchOptionHistory(symbol, window, client_outcome, http_outcome,
                              oversleep, latency)
    \/ \E underlying \in BridgeSymbols, definitions_outcome \in Outcomes,
          all_symbols_outcome \in Outcomes, latency \in RequestLatencies :
           FetchOptionsChain(underlying, definitions_outcome,
                             all_symbols_outcome, latency)

SpecBridge == InitBridge /\ [][NextBridge]_vars

(***************************************************************************)
(* Claims about the bridge (SpecBridge)                                    *)
(***************************************************************************)
\* the HTTP request carries the dataset, schema, symbols, start and end of
\* the request made to the vendor client
SameParameters(client_request, sent_params) ==
    \A k \in {"dataset", "schema", "symbols", "start", "end"} :
        client_request[k] = sent_params[k]

\* C15: when the vendor client call of fetch_futures_continuous fails, the
\* bridge sends the raw HTTP request with the same parameters, returns an
\* empty result if that request fails too, and raises nothing
ClientFailureFallsBackToHttp ==
    (call.op = "fetch_futures_continuous" /\ call.client_outcome = "error") =>
        /\ ~call.raised
        /\ Len(call.http) = 1
        /\ SameParameters(call.client[1], call.http[1].params)
        /\ call.http[1].outcome = "error" => call.result = "empty"

\* C16: when the definitions request of fetch_options_chain fails, the call
\* returns the chain of the synthetic generator, which is not empty
DefinitionsFailureGivesSynthetic ==
    (call.op = "fetch_options_chain" /\ call.definitions = "error") =>
        /\ call.result = "synthetic"
        /\ call.chain = mock_symbology_response(call.root)
        /\ Len(call.chain) > 0

\* C17: every request sent over the HTTP session of a bridge that has an API
\* key carries the bearer Authorization header of that key
HttpRequestsAreAuthenticated ==
    \A i \in 1..Len(http_log) :
        bridge.api_key # NONE =>
            <<"Authorization", <<"Bearer", bridge.api_key>>>> \in http_log[i].headers

\* C18: consecutive HTTP requests of one bridge are at least 100 ms apart:
\* each request waits for the remainder of the 100 ms since the recorded
\* time of the request before it, goes out at once when that time has
\* passed, and its time is recorded whether or not the request before failed
HttpRequestsAreSpaced ==
    /\ \A i \in 1..Len(http_log) :
           /\ http_log[i].time >= http_log[i].entered
           /\ i = 1 => http_log[i].time = http_log[i].entered
           /\ i > 1 =>
                  /\ http_log[i].time >= http_log[i - 1].time + rate_limit_delay
                  /\ http_log[i].entered >= http_log[i - 1].time + rate_limit_delay
                         => http_log[i].time = http_log[i].entered
    /\ Len(http_log) > 0 =>
           bridge.last_request_time = http_log[Len(http_log)].time

\* a request that failed, followed by a request that had to wait for exactly
\* the remainder of the 100 ms
WaitedAfterFailedRequest ==
    /\ Len(http_log) >= 2
    /\ http_log[1].outcome = "error"
    /\ http_log[2].entered < http_log[2].time
    /\ http_log[2].time = http_log[1].time + rate_limit_delay

(***************************************************************************)
(* The command line: main of src/databento_options_puller.py.              *)
(* Date arguments are sequences of characters; an argument that is absent  *)
(* and one that is empty are both <<>> (both are false in Python).         *)
(***************************************************************************)
\* datetime.strptime(s, '%Y-%m-%d'): four digits of year, one or two of
\* month and of day, and a date that exists
strptime(s) ==
    LET dashes == {i \in 1..Len(s) : s[i] = "-"}
    IN IF Cardinality(dashes) # 2 THEN [ok |-> FALSE, exception |-> "ValueError"]
       ELSE LET i == CHOOSE d \in dashes : \A e \in dashes : d <= e
                j == CHOOSE d \in dashes : \A e \in dashes : d >= e
                Y == SubSeq(s, 1, i - 1)
                M == SubSeq(s, i + 1, j - 1)
                D == SubSeq(s, j + 1, Len(s))
            IN IF /\ Len(Y) = 4 /\ Len(M) \in {1, 2} /\ Len(D) \in {1, 2}
                  /\ AllDigits(Y) /\ AllDigits(M) /\ AllDigits(D)
                  /\ DecimalValue(Y) >= 1
                  /\ DecimalValue(M) \in 1..12
                  /\ DecimalValue(D) \in
                         1..days_in_month(DecimalValue(Y), DecimalValue(M))
               THEN [ok |-> TRUE,
                     value |-> datetime(DecimalValue(Y), DecimalValue(M),
                                        DecimalValue(D))]
               ELSE [ok |-> FALSE, exception |-> "ValueError"]

\* a value that is false in Python: None or the empty string
Falsy(key) == key \in {NONE, ""}

\* args.api_key or os.getenv('DATABENTO_API_KEY')
KeyOf(arguments, environment) ==
    IF ~Falsy(arguments.api_key) THEN arguments.api_key ELSE environment

\* variant: the API key is not looked at
validate_arguments_without_key(arguments, environment) ==
    IF arguments.demo THEN [ok |-> TRUE]
    ELSE IF arguments.start_date = <<>> \/ arguments.end_date = <<>>
    THEN [ok |-> FALSE, exception |-> "ValueError"]
    ELSE IF ~strptime(arguments.start_date).ok \/ ~strptime(arguments.end_date).ok
    THEN [ok |-> FALSE, exception |-> "ValueError"]
    ELSE [ok |-> TRUE]

\* validate_arguments(args)
validate_arguments(arguments, environment) ==
    IF arguments.demo THEN [ok |-> TRUE]
    ELSE IF arguments.start_date = <<>> \/ arguments.end_date = <<>>
    THEN [ok |-> FALSE, exception |-> "ValueError"]
    ELSE IF ~strptime(arguments.start_date).ok \/ ~strptime(arguments.end_date).ok
    THEN [ok |-> FALSE, exception |-> "ValueError"]
    ELSE IF Falsy(KeyOf(arguments, environment)) /\ ~arguments.mock_mode
    THEN [ok |-> FALSE, exception |-> "ValueError"]
    ELSE [ok |-> TRUE]

\* variant: a bare except, which also catches SystemExit
CaughtByBareExcept(exception) == TRUE

\* except Exception as e, of main: SystemExit is not an Exception
CaughtByMain(exception) == exception # "SystemExit"

\* the date arguments given: two dates, a day that does not exist, another
\* format, and none
DateArguments ==
    {<<"2", "0", "2", "1", "-", "1", "2", "-", "0", "1">>,
     <<"2", "0", "2", "2", "-", "3", "-", "9">>,
     <<"2", "0", "2", "1", "-", "0", "2", "-", "3", "0">>,
     <<"1", "2", "/", "0", "1", "/", "2", "0", "2", "1">>,
     <<>>}

\* the command lines: accepted by the parser, rejected by it (an unknown
\* flag, a value outside the choices), or asking for the help text
CommandLines ==
    [parser : {"ok", "error", "help"},
     demo : BOOLEAN,
     mock_mode : BOOLEAN,
     api_key : {NONE, "", "cli-key"},
     start_date : DateArguments,
     end_date : DateArguments]

\* what the steps of main do that can be seen from outside
Does(step) == effects' = Append(effects, step)

\* a step of main outside run_data_pull
CliUnchanged ==
    UNCHANGED <<calibrationVars, managerVars, bridgeVars, all_option_data, output_table>>

InitCli ==
    /\ CalibrationIdle
    /\ ManagersIdle
    /\ BridgeIdle
    /\ args = NONE
    /\ environ \in {NONE, "", "env-key"}
    /\ exit_code = NONE
    /\ effects = <<>>
    /\ all_option_data = <<>>
    /\ output_table = <<>>
    /\ pc = "main"
    /\ call = NoCall

\* a step of main raises: the handler of main is next if it catches the
\* exception, otherwise the exception ends the process with its status
Raise(step, exception, status) ==
    /\ call' = [op |-> step, exception |-> exception]
    /\ IF CaughtByMain(exception)
       THEN /\ pc' = "except"
            /\ UNCHANGED exit_code
       ELSE /\ pc' = "exited"
            /\ exit_code' = status

\* a step of main returns
Return(step, next) ==
    /\ call' = [op |-> step, exception |-> NONE]
    /\ pc' = next
    /\ UNCHANGED exit_code

\* args = parse_arguments(): the parser ends the process with SystemExit(2)
\* on a command line it rejects and with SystemExit(0) after the help text
ParseArguments(command_line) ==
    /\ pc = "main"
    /\ IF command_line.parser = "ok"
       THEN /\ args' = command_line
            /\ Does("parse_arguments")
            /\ Return("parse_arguments", "parsed")
       ELSE /\ UNCHANGED args
            /\ Does(IF command_line.parser = "help" THEN "print_help" ELSE "print_usage")
            /\ Raise("parse_arguments", "SystemExit",
                     IF command_line.parser = "help" THEN 0 ELSE 2)
    /\ UNCHANGED environ
    /\ CliUnchanged

\* if args.demo: run_demo(...); return 0
RunDemo(raises) ==
    /\ pc = "parsed"
    /\ args.demo
    /\ IF raises
       THEN /\ UNCHANGED effects
            /\ Raise("run_demo", "OSError", 1)
       ELSE /\ Does("run_demo")
            /\ call' = [op |-> "run_demo", exception |-> NONE]
            /\ pc' = "exited"
            /\ exit_code' = 0
    /\ UNCHANGED <<args, environ>>
    /\ CliUnchanged

\* setup_logging(...)
SetupLogging(raises) ==
    /\ pc = "parsed"
    /\ ~args.demo
    /\ IF raises
       THEN /\ UNCHANGED effects
            /\ Raise("setup_logging", "OSError", 1)
       ELSE /\ Does("setup_logging")
            /\ Return("setup_logging", "validate_arguments")
    /\ UNCHANGED <<args, environ>>
    /\ CliUnchanged

\* validate_arguments(args)
ValidateArguments ==
    /\ pc = "validate_arguments"
    /\ LET valid == validate_arguments(args, environ)
       IN IF valid.ok
          THEN /\ Does("validate_arguments")
               /\ Return("validate_arguments", "output_path")
          ELSE /\ UNCHANGED effects
               /\ Raise("validate_arguments", valid.exception, 1)
    /\ UNCHANGED <<args, environ>>
    /\ CliUnchanged

\* the output path: the directory output is made for the default name
OutputPath(raises) ==
    /\ pc = "output_path"
    /\ IF raises
       THEN /\ UNCHANGED effects
            /\ Raise("output_path", "OSError", 1)
       ELSE /\ Does("output_path")
            /\ Return("output_path", "setup_components")
    /\ UNCHANGED <<args, environ>>
    /\ CliUnchanged

\* components = setup_components(args): the bridge is constructed first
SetupComponents(raises) ==
    /\ pc = "setup_components"
    /\ IF raises
       THEN /\ Does("DatabentoBridge")
            /\ Raise("setup_components", "TypeError", 1)
       ELSE /\ effects' = effects \o <<"DatabentoBridge", "setup_components">>
            /\ Return("setup_components", "run_data_pull")
    /\ UNCHANGED <<args, environ>>
    /\ CliUnchanged

\* df = run_data_pull(args, components, output_path): the selections are
\* asked for; without any the pull raises, otherwise the data is fetched and
\* the table is written
RunDataPull(outcome) ==
    /\ pc = "run_data_pull"
    /\ IF outcome = "no_options"
       THEN /\ Does("identify_monthly_options")
            /\ Raise("run_data_pull", "RuntimeError", 1)
       ELSE IF outcome = "error"
       THEN /\ effects' = effects \o <<"identify_monthly_options", "fetch_option_history">>
            /\ Raise("run_data_pull", "OSError", 1)
       ELSE /\ effects' = effects \o <<"identify_monthly_options",
                                       "fetch_option_history", "to_csv">>
            /\ Return("run_data_pull", "summary")
    /\ UNCHANGED <<args, environ>>
    /\ CliUnchanged

\* the summary is printed; return 0
PrintSummary(raises) ==
    /\ pc = "summary"
    /\ IF raises
       THEN /\ UNCHANGED effects
            /\ Raise("summary", "OSError", 1)
       ELSE /\ Does("print_summary")
            /\ call' = [op |-> "summary", exception |-> NONE]
            /\ pc' = "exited"
            /\ exit_code' = 0
    /\ UNCHANGED <<args, environ>>
    /\ CliUnchanged

\* except Exception as e: the error is logged and printed; return 1
TopLevelHandler ==
    /\ pc = "except"
    /\ Does("print_error")
    /\ exit_code' = 1
    /\ pc' = "exited"
    /\ UNCHANGED <<args, environ, call>>
    /\ CliUnchanged

NextCli ==
    \/ \E command_line \in CommandLines : ParseArguments(command_line)
    \/ \E raises \in BOOLEAN : RunDemo(raises)
    \/ \E raises \in BOOLEAN : SetupLogging(raises)
    \/ ValidateArguments
    \/ \E raises \in BOOLEAN : OutputPath(raises)
    \/ \E raises \in BOOLEAN : SetupComponents(raises)
    \/ \E outcome \in {"no_options", "error", "written"} : RunDataPull(outcome)
    \/ \E raises \in BOOLEAN : PrintSummary(raises)
    \/ TopLevelHandler

SpecCli == InitCli /\ [][NextCli]_vars

(***************************************************************************)
(* Claims about the command line (SpecCli)                                 *)
(***************************************************************************)
\* parse_arguments has returned the arguments
Parsed == "parse_arguments" \in Range(effects)

\* no API key is available and no mock mode is asked for, or a date does not
\* parse, in a run without --demo
CannotBeValidated ==
    /\ Parsed
    /\ ~args.demo
    /\ \/ Falsy(args.api_key) /\ Falsy(environ) /\ ~args.mock_mode
       \/ ~strptime(args.start_date).ok
       \/ ~strptime(args.end_date).ok

\* the steps that construct the bridge or ask for data
BridgeSteps ==
    {"DatabentoBridge", "setup_components", "identify_monthly_options",
     "fetch_option_history", "to_csv"}

\* C19: without --demo, a run with no API key (and no --mock-mode) or with a
\* date that does not parse fails in validate_arguments before the bridge
\* is constructed and before any data is asked for; with --demo nothing is
\* checked and no bridge is constructed
FailsInValidation ==
    /\ CannotBeValidated =>
           /\ Range(effects) \cap BridgeSteps = {}
           /\ "validate_arguments" \notin Range(effects)
           /\ pc \notin {"output_path", "setup_components", "run_data_pull", "summary"}
           /\ pc = "exited" => exit_code = 1
           /\ (pc = "except" /\ "setup_logging" \in Range(effects)) =>
                  call = [op |-> "validate_arguments", exception |-> "ValueError"]
    /\ (Parsed /\ args.demo) =>
           /\ Range(effects) \subseteq {"parse_arguments", "run_demo", "print_error"}
           /\ pc \in {"parsed", "except", "exited"}

\* a run with valid dates and no key has ended with the error of the
\* validation
EndedWithoutKey ==
    /\ pc = "exited"
    /\ CannotBeValidated
    /\ strptime(args.start_date).ok
    /\ strptime(args.end_date).ok
    /\ call = [op |-> "validate_arguments", exception |-> "ValueError"]
    /\ exit_code = 1
    /\ effects = <<"parse_arguments", "setup_logging", "print_error">>

StuckCountBelowPatience ==
    /\ refiner.patience >= 1
    /\ refiner.stuck_count >= 0
    /\ refiner.stuck_count < refiner.patience
    /\ get_convergence_info(refiner, history).stuck_count < refiner.patience

\* a refine call in which the counter reached patience and was reset, after
\* an earlier call had left it above 0
ResetAtPatience ==
    /\ call.op = "refine"
    /\ call.escalated
    /\ call.stuck_after_update = refiner.patience
    /\ refiner.patience >= 2
    /\ refiner.stuck_count = 0

\* C28: a refine call changes neither the parameter snapshots of the history
\* entries (that of the entry it records included), nor the best_params it
\* keeps, nor the caller's current_params, nested values included
RefineKeepsSnapshots ==
    [][call'.op = "refine" =>
        /\ \A k \in 1..Len(history) :
               Deep(history'[k].params, heap') = Deep(history[k].params, heap)
        /\ Deep(history'[Len(history')].params, heap')
               = Deep(call'.current_params, heap)
        /\ Deep(call'.current_params, heap') = Deep(call'.current_params, heap)
        /\ \/ Deep(refiner'.best_params, heap') = Deep(refiner.best_params, heap)
           \/ /\ call'.stuck_after_update = 0
              /\ Deep(refiner'.best_params, heap')
                     = Deep(call'.current_params, heap)]_vars

(***************************************************************************)
(* Symbol utilities (src/utils/symbol_utils.py)                            *)
(***************************************************************************)
\* what \s matches and strip() removes, of the characters that occur
Whitespace == {" "}

RECURSIVE strip(_)
\* s.strip()
strip(s) ==
    IF s # <<>> /\ Head(s) \in Whitespace THEN strip(Tail(s))
    ELSE IF s # <<>> /\ s[Len(s)] \in Whitespace THEN strip(SubSeq(s, 1, Len(s) - 1))
    ELSE s

\* MONTH_CODES[month_code]
MONTH_CODES(month_code) == CHOOSE m \in 1..12 : contract_months[m] = month_code

\* parse_option_symbol(symbol): the pattern
\* ^([A-Z]+)([FGHJKMNQUVXZ])(\d)\s+([CP])(\d+)$ on the stripped symbol; none
\* of its groups matches whitespace, so the groups before \s+ end at the
\* first whitespace and those after it start after the whitespace following
parse_option_symbol(symbol) ==
    LET s == strip(symbol)
        blanks == {i \in 1..Len(s) : s[i] \in Whitespace}
        first_blank == CHOOSE i \in blanks : \A j \in blanks : i <= j
        contract == SubSeq(s, 1, first_blank - 1)
        option == strip(SubSeq(s, first_blank, Len(s)))
        n == Len(contract)
        strike_raw == Tail(option)
    IN IF /\ blanks # {}
          /\ n >= 3
          /\ \A i \in 1..(n - 2) : contract[i] \in UpperCase
          /\ contract[n - 1] \in Range(contract_months)
          /\ contract[n] \in Range(Digits)
          /\ Len(option) >= 2
          /\ Head(option) \in {"C", "P"}
          /\ AllDigits(strike_raw)
       THEN [ok |-> TRUE,
             value |-> [root |-> SubSeq(contract, 1, n - 2),
                        month_code |-> contract[n - 1],
                        month |-> MONTH_CODES(contract[n - 1]),
                        year_code |-> contract[n],
                        year |-> 2020 + int_of_digit(contract[n]),
                        option_type |-> Head(option),
                        strike |-> float_truediv(DecimalValue(strike_raw), 100),
                        strike_raw |-> DecimalValue(strike_raw),
                        full_symbol |-> symbol]]
       ELSE [ok |-> FALSE, exception |-> "ValueError"]

\* build_option_symbol(root, month, year, option_type, strike)
build_option_symbol(root, month, year, option_type, strike) ==
    IF month \notin 1..12 THEN [ok |-> FALSE, exception |-> "ValueError"]
    ELSE [ok |-> TRUE,
          value |-> root \o <<contract_months[month], year_code_of(year)>>
                        \o <<" ", option_type>>
                        \o str_of_int(int_of_float(float_mul(strike, 100)))]

(***************************************************************************)
(* DeltaCalculator.find_target_delta_strike.  The delta calculate_delta    *)
(* gives a strike is held with the strike; deltas are in hundredths.       *)
(***************************************************************************)
\* variant: the last of the strikes nearest the target is returned
find_target_delta_strike_last(spot_price, options, target) ==
    LET reversed == [i \in 1..Len(options) |-> options[Len(options) + 1 - i]]
        best == BestOf(reversed, target, <<>>)
    IN IF options = <<>> THEN <<spot_price, 0>> ELSE <<best[1], best[2]>>

\* find_target_delta_strike(spot_price, available_strikes, ..., target_delta):
\* <<best_strike, best_delta>>
find_target_delta_strike(spot_price, options, target) ==
    LET best == BestOf(options, target, <<>>)
    IN IF options = <<>> THEN <<spot_price, 0>> ELSE <<best[1], best[2]>>

(***************************************************************************)
(* SpecSymbols: the symbol utilities and the strike search, applied to any *)
(* of the inputs below.                                                    *)
(***************************************************************************)
\* the digits after the option type: the strike of the example, strikes of
\* two and three digits, and strikes written with leading zeros
StrikeDigits ==
    {<<"2", "7", "8", "0", "0">>, <<"2", "9">>, <<"5", "0", "0">>,
     <<"0", "0", "5", "0", "0">>, <<"0">>, <<"1", "1", "3">>}

\* symbols of the pattern ROOT, month code, year digit, space, C or P, digits
PatternSymbols ==
    {root \o <<month_code, year_code, " ", option_type>> \o digits :
        root \in {OH, ES},
        month_code \in {"F", "H", "Z"},
        year_code \in {"2", "0"},
        option_type \in {"C", "P"},
        digits \in StrikeDigits}

\* strings that are no option symbols: a futures contract, a symbol without
\* the space, one with a lower-case root
OtherSymbols ==
    {<<"O", "H", "F", "2">>,
     <<"O", "H", "F", "2", "C", "2", "7", "8", "0", "0">>,
     <<"o", "h", "F", "2", " ", "C", "2", "7", "8", "0", "0">>}

\* the strikes of a chain with the delta of each: the spot price is 100
StrikeDeltas ==
    {[strike |-> 95, delta |-> 60], [strike |-> 105, delta |-> 20],
     [strike |-> 110, delta |-> 10], [strike |-> 115, delta |-> 5]}

\* the longest list of strikes
MaxStrikes == 3

StrikeLists == UNION {[1..n -> StrikeDeltas] : n \in 0..MaxStrikes}

InitSymbols ==
    /\ CalibrationIdle
    /\ ManagersIdle
    /\ BridgeIdle
    /\ CliIdle
    /\ pc = "symbols"
    /\ call = NoCall

\* parse_option_symbol(symbol), and build_option_symbol of its components
ParseAndBuild(symbol) ==
    /\ pc = "symbols"
    /\ LET parsed == parse_option_symbol(symbol)
       IN call' = [op |-> "parse_option_symbol",
                   symbol |-> symbol,
                   parsed |-> parsed,
                   built |-> IF parsed.ok
                             THEN build_option_symbol(parsed.value.root,
                                                      parsed.value.month,
                                                      parsed.value.year,
                                                      parsed.value.option_type,
                                                      parsed.value.strike)
                             ELSE parsed]
    /\ UNCHANGED <<pc, calibrationVars, managerVars, bridgeVars, cliVars>>

\* find_target_delta_strike(spot_price, strikes, ..., target_delta)
FindTargetDeltaStrike(spot_price, options) ==
    /\ pc = "symbols"
    /\ call' = [op |-> "find_target_delta_strike",
                spot_price |-> spot_price,
                options |-> options,
                returned |-> find_target_delta_strike(spot_price, options, target_delta)]
    /\ UNCHANGED <<pc, calibrationVars, managerVars, bridgeVars, cliVars>>

NextSymbols ==
    \/ \E symbol \in PatternSymbols \cup OtherSymbols : ParseAndBuild(symbol)
    \/ \E spot_price \in {100, 102}, options \in StrikeLists :
           FindTargetDeltaStrike(spot_price, options)

SpecSymbols == InitSymbols /\ [][NextSymbols]_vars

(***************************************************************************)
(* Properties of the symbol utilities and of the strike search             *)
(***************************************************************************)
\* C23: for a symbol of the documented pattern, build_option_symbol of the
\* components parse_option_symbol returns gives the symbol back, leading
\* zeros of the digits included
BuildInvertsParse ==
    (call.op = "parse_option_symbol" /\ call.symbol \in PatternSymbols)
        => /\ call.parsed.ok
           /\ call.built.ok
           /\ call.built.value = call.symbol

\* the distance of an option's delta from the target
DeltaDistance(option) == Abs(option.delta - target_delta)

\* C26: for a non-empty list find_target_delta_strike returns the strike
\* and the delta of the first entry of the list whose delta is nearest the
\* target; for an empty list it returns the spot price and 0
NearestStrikeFirst ==
    call.op = "find_target_delta_strike"
        => IF call.options = <<>>
           THEN call.returned = <<call.spot_price, 0>>
           ELSE \E i \in 1..Len(call.options) :
                    /\ call.returned = <<call.options[i].strike, call.options[i].delta>>
                    /\ \A j \in 1..Len(call.options) :
                           /\ DeltaDistance(call.options[i]) <= DeltaDistance(call.options[j])
                           /\ j < i => DeltaDistance(call.options[i])
                                           < DeltaDistance(call.options[j])

\* two strikes are equally near the target and nearer than the others, and
\* the first of them is returned
FirstOfTwoNearest ==
    /\ call.op = "find_target_delta_strike"
    /\ Len(call.options) = 3
    /\ DeltaDistance(call.options[2]) = DeltaDistance(call.options[3])
    /\ DeltaDistance(call.options[2]) < DeltaDistance(call.options[1])
    /\ call.options[2].strike # call.options[3].strike
    /\ call.returned[1] = call.options[2].strike

(***************************************************************************)
(* Claims about the symbols of the selections (SpecManagers)               *)
(***************************************************************************)
\* the number after the option type of an option symbol
StrikeSuffix(symbol) ==
    LET i == CHOOSE j \in 1..Len(symbol) : symbol[j] = " "
    IN DecimalValue(SubSeq(symbol, i + 2, Len(symbol)))

\* the chain entries of the processed roll dates that have a symbol
ListedEntries ==
    IF "rolls" \notin DOMAIN call THEN {}
    ELSE {e \in UNION {Range(call.rolls[i].options_chain) : i \in 1..Len(call.rolls)} :
              "symbol" \in DOMAIN e}

\* C24: every option symbol uses the strike encoding strike_dollars =
\* strike_suffix / 10000: the numeric suffix of the symbol of every selection
\* of identify_monthly_options is its strike in dollars times 10000, as the
\* suffix of every symbol of a chain built from the local file is the
\* dollar strike of its entry times 10000 (a strike is held as dollars
\* times 10000)
OneStrikeEncoding ==
    /\ \A e \in ListedEntries : StrikeSuffix(e.symbol) = e.strike
    /\ \A k \in 1..Len(selected_options) :
           StrikeSuffix(selected_options[k].symbol) = selected_options[k].strike

\* C29: the symbol recorded for every selection is the symbol of the entry
\* of the options chain of its roll date whose strike was selected
SelectionIsChainEntry ==
    "rolls" \in DOMAIN call =>
        \A i \in 1..Len(call.rolls) :
            \A k \in 1..Len(selected_options) :
                (/\ call.rolls[i].outcome = "selected"
                 /\ selected_options[k].selection_date = call.rolls[i].roll_date)
                    => \E j \in 1..Len(call.rolls[i].options_chain) :
                           /\ call.rolls[i].options_chain[j].strike
                                  = selected_options[k].strike
                           /\ call.rolls[i].options_chain[j].symbol
                                  = selected_options[k].symbol

(***************************************************************************)
(* The caches of one OptionsManager: _get_options_chain and                *)
(* _get_spot_price are asked in any order, with a client whose answers     *)
(* change from call to call.                                               *)
(***************************************************************************)
\* the contracts, expiry months and dates the manager is asked for
CacheContracts == {<<"H", "O", "G", "2">>, <<"H", "O", "H", "2">>}
CacheExpiryMonths == {<<2022, 2>>}
CacheDates == {datetime(2021, 12, 1), datetime(2022, 1, 3)}

\* the clients: a local file with calls, a local file that is not loaded
\* (its chain is empty), a client that raises
CacheClients == {c \in Clients : c.use_local_file => Len(c.local_data_cache) # 4}

\* what the client answers get_spot_price with: a price, or an exception
SpotAnswers ==
    {[ok |-> TRUE, price |-> FuturesPrice], [ok |-> TRUE, price |-> FuturesPrice + 10],
     [ok |-> FALSE]}

InitCache ==
    /\ CalibrationIdle
    /\ ManagersIdle
    /\ BridgeIdle
    /\ CliIdle
    /\ pc = "cache"
    /\ call = NoCall

\* self._get_options_chain(underlying_contract, expiry_month, trade_date)
GetOptionsChain(underlying_contract, expiry_month, date, client) ==
    /\ pc = "cache"
    /\ LET got == _get_options_chain(options_cache, underlying_contract,
                                     expiry_month, date, client)
       IN /\ options_cache' = got.options_cache
          /\ call' = [op |-> "_get_options_chain",
                      cache_key |-> <<underlying_contract, expiry_month, date>>,
                      answer |-> fetch_options_chain_of(client, underlying_root,
                                                        expiry_month),
                      fetched |-> got.fetched,
                      returned |-> got.chain]
    /\ UNCHANGED <<root_symbol, trade_date, front_month, start_date, end_date,
                   current_year, current_month, roll_schedule, roll_index,
                   selected_options, spot_price_cache, pc>>
    /\ UNCHANGED <<calibrationVars, bridgeVars, cliVars>>

\* self._get_spot_price(date)
GetSpotPrice(date, answer) ==
    /\ pc = "cache"
    /\ LET got == _get_spot_price(spot_price_cache, date, answer)
       IN /\ spot_price_cache' = got.spot_price_cache
          /\ call' = [op |-> "_get_spot_price",
                      cache_key |-> date,
                      answer |-> answer,
                      fetched |-> got.fetched,
                      returned |-> got.spot_price]
    /\ UNCHANGED <<root_symbol, trade_date, front_month, start_date, end_date,
                   current_year, current_month, roll_schedule, roll_index,
                   selected_options, options_cache, pc>>
    /\ UNCHANGED <<calibrationVars, bridgeVars, cliVars>>

NextCache ==
    \/ \E underlying_contract \in CacheContracts, expiry_month \in CacheExpiryMonths,
          date \in CacheDates, client \in CacheClients :
           GetOptionsChain(underlying_contract, expiry_month, date, client)
    \/ \E date \in CacheDates, answer \in SpotAnswers : GetSpotPrice(date, answer)

SpecCache == InitCache /\ [][NextCache]_vars

\* every entry of the cache before a step is an entry after it
EntriesKept(cache_before, cache_after) ==
    \A key \in DOMAIN cache_before :
        key \in DOMAIN cache_after /\ cache_after[key] = cache_before[key]

\* C25: an entry stored in options_cache or spot_price_cache is never removed
\* or changed, and a lookup whose key is stored returns the stored value
\* without asking the client, so that once a call for a key has returned
\* normally the client is not asked for that key again
CacheEntriesAreKept ==
    [][/\ EntriesKept(options_cache, options_cache')
       /\ EntriesKept(spot_price_cache, spot_price_cache')
       /\ (call'.op = "_get_options_chain" /\ call'.cache_key \in DOMAIN options_cache)
              => (~call'.fetched /\ call'.returned = options_cache[call'.cache_key])
       /\ (call'.op = "_get_spot_price" /\ call'.cache_key \in DOMAIN spot_price_cache)
              => (~call'.fetched /\ call'.returned = spot_price_cache[call'.cache_key])
       /\ (call'.op \in {"_get_options_chain", "_get_spot_price"}
               /\ call'.fetched /\ call'.answer.ok)
              => call'.cache_key \in DOMAIN (IF call'.op = "_get_options_chain"
                                             THEN options_cache' ELSE spot_price_cache')]_vars

\* a lookup served from the cache, with the empty chain of an earlier call,
\* while the client would now answer with another chain, and a spot price
\* stored beside it
StoredChainServed ==
    /\ call.op = "_get_options_chain"
    /\ ~call.fetched
    /\ call.returned = <<>>
    /\ call.answer.ok
    /\ call.answer.chain # <<>>
    /\ options_cache[call.cache_key] = <<>>
    /\ DOMAIN spot_price_cache # {}

(***************************************************************************)
(* run_data_pull of src/databento_options_puller.py, from the call of      *)
(* identify_monthly_options to the written table, and the end of main.     *)
(* Prices are in hundredths of a dollar; '' is the empty sequence.         *)
(***************************************************************************)
\* f"{n:02d}"
zero_padded2(n) == IF n < 10 THEN <<"0">> \o str_of_int(n) ELSE str_of_int(n)

\* the '%Y-%m-%d' string of a day
isoformat(y, m, d) ==
    str_of_int(y) \o <<"-">> \o zero_padded2(m) \o <<"-">> \o zero_padded2(d)

\* the requested ranges: trading days but no roll date, a roll date on its
\* first day, a roll date after the new year, a weekend
PullRanges ==
    {<<isoformat(2021, 12, 6), isoformat(2021, 12, 17)>>,
     <<isoformat(2021, 12, 1), isoformat(2021, 12, 10)>>,
     <<isoformat(2021, 12, 27), isoformat(2022, 1, 5)>>,
     <<isoformat(2021, 12, 4), isoformat(2021, 12, 5)>>}

\* the clients of the run: the bridge with a local file with calls, and
\* with a local file that is not loaded
PullClients == {c \in Clients : c.use_local_file /\ Len(c.local_data_cache) # 4}

\* the dates an option history can hold records of: the day before the
\* range, its fourth day, its last day, the day after it
HistoryDates == {start_date - 1, start_date + 3, end_date, end_date + 1}

\* the price column of the histories: close, price, or neither
PriceColumns == {"close", "price", "volume"}

\* how the futures requests of a run are answered: with a row, or with no
\* row on Mondays and an exception on Fridays
FuturesFeeds == {"data", "mixed"}

\* the answer to the futures request for a day
FeedOutcome(feed, date) ==
    IF feed # "mixed" THEN feed
    ELSE IF weekday(date) = 0 THEN "empty"
    ELSE IF weekday(date) = 4 THEN "error"
    ELSE "data"

\* the elements of a set of numbers in ascending order
Sorted(S) ==
    [i \in 1..Cardinality(S) |->
        CHOOSE n \in S : Cardinality({m \in S : m < n}) = i - 1]

\* args.symbol in ['OH', 'HO'] and args.start_date == '2021-12-02' and
\* args.end_date == '2022-03-09'
is_exact_target_format(arguments) ==
    /\ arguments.symbol \in {OH, HO}
    /\ arguments.start_date = isoformat(2021, 12, 2)
    /\ arguments.end_date = isoformat(2022, 3, 9)

RECURSIVE generate_trading_days(_, _)
\* utils.date_utils.generate_trading_days: the business days from start to
\* end that are no holidays of USFederalHolidayCalendar
generate_trading_days(start, end) ==
    IF start > end THEN <<>>
    ELSE (IF is_trading_day(start) THEN <<start>> ELSE <<>>)
             \o generate_trading_days(start + 1, end)

\* variant: the rows are the dates of the option data
dates_of_option_data(start, end, all_trading_dates) == Sorted(all_trading_dates)

\* dates = generate_trading_days(args.start_date, args.end_date)
dates_of_table(start, end, all_trading_dates) == generate_trading_days(start, end)

\* d.strftime('%-m/%-d/%y')
strftime_mdy(date) ==
    str_of_int(month_of(date)) \o <<"/">> \o str_of_int(day_of(date)) \o <<"/">>
        \o zero_padded2(year_of(date) % 100)

\* f"{price_date.month}/{price_date.day}/{str(price_date.year)[-2:]}"
formatted_date(price_date) ==
    LET year == str_of_int(year_of(price_date))
    IN str_of_int(month_of(price_date)) \o <<"/">> \o str_of_int(day_of(price_date))
           \o <<"/">> \o SubSeq(year, Max(1, Len(year) - 1), Len(year))

\* f"{price:.2f}"
format_2f(price) == str_of_int(price \div 100) \o <<".">> \o zero_padded2(price % 100)

RECURSIVE rstrip(_, _)
\* s.rstrip(c)
rstrip(s, c) ==
    IF s # <<>> /\ s[Len(s)] = c THEN rstrip(SubSeq(s, 1, Len(s) - 1), c) ELSE s

\* price_str = f"{price:.2f}"; if '.' in price_str:
\* price_str = price_str.rstrip('0').rstrip('.')
price_str(price) == rstrip(rstrip(format_2f(price), "0"), ".")

\* return 2.5  # Default fallback
DefaultSpotPrice == 250

\* if underlying.startswith('HO') or underlying == 'OH': symbol_to_use = 'HO'
symbol_to_use(underlying) ==
    IF StartsWithHO(underlying) \/ underlying = OH THEN HO ELSE underlying

\* DatabentoBridge.get_spot_price(underlying, date), the request of
\* fetch_futures_continuous answered with outcome: the request sent, and
\* the price returned or the exception raised
get_spot_price(underlying, date, outcome) ==
    [ok |-> outcome # "error",
     exception |-> "Exception",
     value |-> IF outcome = "data" THEN FuturesPrice ELSE DefaultSpotPrice,
     requests |-> <<[underlying |-> underlying, symbol |-> symbol_to_use(underlying),
                     start_date |-> date, end_date |-> date, outcome |-> outcome]>>]

\* df.loc[idx, 'Futures_Price'] = f"{futures_price:.2f}", '' after an
\* exception
futures_cell(futures_price) ==
    [requests |-> futures_price.requests,
     cell |-> IF futures_price.ok THEN format_2f(futures_price.value) ELSE <<>>]

\* the body of the loop over dates: the requests sent for a day and the
\* cell of Futures_Price
futures_price_of(root, date, outcome) ==
    futures_cell(get_spot_price(get_front_month_contract(root, date), date, outcome))

\* the price of the record of a day in the histories of the model
HistoryPrice(date) == IF date % 2 = 0 THEN OptionPrice ELSE 10 * OptionPrice

\* if 'close' in row: price = row['close'] elif 'price' in row:
\* price = row['price'], and the string written
price_of_row(row) ==
    price_str(IF "close" \in DOMAIN row THEN row.close ELSE row.price)

\* the cell after the records at the positions matching have been written,
\* in their order; '' without any
cell_of_matching(price_data, matching) ==
    IF matching = {} THEN <<>> ELSE price_of_row(price_data[SetMax(matching)])

\* the cell of column symbol in the row of a timestamp after the loop over
\* the records of price_data: a record without a price column is passed
\* over, one whose formatted date is no timestamp of the table changes
\* nothing
option_cell(price_data, timestamp) ==
    cell_of_matching(price_data,
                     {j \in 1..Len(price_data) :
                          /\ DOMAIN price_data[j] \cap {"close", "price"} # {}
                          /\ formatted_date(price_data[j].date) = timestamp})

\* df.loc[matching_rows.index, symbol] = price_str, for the row of a
\* timestamp; nothing is written without a matching record
set_cell(row, symbol, cell) ==
    IF cell = <<>> THEN row ELSE [row EXCEPT !.options[symbol] = cell]

\* if not selected_options, variant: the run goes on without selections
NoneSelectedIgnored(selected) == FALSE

\* if not selected_options
NoneSelected(selected) == selected = <<>>

InitPull ==
    /\ CalibrationIdle
    /\ BridgeIdle
    /\ \E range \in PullRanges, symbol \in {HO, OH} :
           /\ args = [parser |-> "ok", demo |-> FALSE, mock_mode |-> TRUE,
                      api_key |-> NONE, symbol |-> symbol,
                      start_date |-> range[1], end_date |-> range[2]]
           /\ root_symbol = symbol
           /\ start_date = strptime(range[1]).value
           /\ end_date = strptime(range[2]).value
    /\ environ = NONE
    /\ exit_code = NONE
    /\ effects = <<"parse_arguments", "setup_logging", "validate_arguments",
                   "output_path", "DatabentoBridge", "setup_components">>
    /\ all_option_data = <<>>
    /\ output_table = <<>>
    /\ trade_date = NONE
    /\ front_month = NONE
    /\ current_year = NONE
    /\ current_month = NONE
    /\ roll_schedule = <<>>
    /\ roll_index = 0
    /\ selected_options = <<>>
    /\ options_cache = <<>>
    /\ spot_price_cache = <<>>
    /\ pc = "managers"
    /\ call = [op |-> "setup_components", exception |-> NONE]

\* if not selected_options: raise RuntimeError("No options identified by
\* strategy")
CheckSelected ==
    /\ pc = "returned"
    /\ Does("identify_monthly_options")
    /\ IF NoneSelected(selected_options)
       THEN Raise("run_data_pull", "RuntimeError", 1)
       ELSE Return("identify_monthly_options", "fetch_option_history")
    /\ UNCHANGED <<args, environ>>
    /\ CliUnchanged

\* the loop over selected_options: the history of selection k holds a
\* record for each day of histories[k], and raises tells that a request
\* raised an exception
FetchOptionHistories(histories, price_column, raises) ==
    /\ pc = "fetch_option_history"
    /\ Does("fetch_option_history")
    /\ IF raises
       THEN /\ Raise("run_data_pull", "OSError", 1)
            /\ UNCHANGED all_option_data
       ELSE /\ LET price_data(k) ==
                       [j \in 1..Cardinality(histories[k]) |->
                           (price_column :> HistoryPrice(Sorted(histories[k])[j]))
                               @@ [date |-> Sorted(histories[k])[j]]]
                   fetched == [k \in 1..Len(selected_options) |->
                                  [symbol |-> selected_options[k].symbol,
                                   price_data |-> price_data(k)]]
               IN all_option_data' =
                      SelectSeq(fetched, LAMBDA data : data.price_data # <<>>)
            /\ Return("fetch_option_history", "build_table")
    /\ UNCHANGED <<args, environ, output_table>>
    /\ UNCHANGED <<calibrationVars, managerVars, bridgeVars>>

\* the dates of the histories stored, the dates of the table, and the table
\* with its Futures_Price column and its option columns empty; the range is
\* not that of the exact target format
BuildTable ==
    /\ pc = "build_table"
    /\ ~is_exact_target_format(args)
    /\ \E all_trading_dates \in
              {UNION {{all_option_data[k].price_data[j].date :
                           j \in 1..Len(all_option_data[k].price_data)} :
                      k \in 1..Len(all_option_data)}} :
           \E dates \in {dates_of_table(start_date, end_date, all_trading_dates)} :
               /\ output_table' =
                      [i \in 1..Len(dates) |->
                          [timestamp |-> strftime_mdy(dates[i]),
                           Futures_Price |-> <<>>,
                           options |-> [symbol \in {selected_options[k].symbol :
                                                       k \in 1..Len(selected_options)}
                                           |-> <<>>]]]
               /\ call' = [op |-> "build_table", exception |-> NONE, dates |-> dates,
                           requests |-> <<>>]
    /\ pc' = "futures_prices"
    /\ UNCHANGED <<args, environ, exit_code, effects, all_option_data>>
    /\ UNCHANGED <<calibrationVars, managerVars, bridgeVars>>

\* the loop over dates that fills the Futures_Price column
FetchFuturesPrices(feed) ==
    /\ pc = "futures_prices"
    /\ \E futures \in {[i \in 1..Len(call.dates) |->
                           futures_price_of(root_symbol, call.dates[i],
                                            FeedOutcome(feed, call.dates[i]))]} :
           /\ output_table' =
                  [i \in 1..Len(output_table) |->
                      [output_table[i] EXCEPT !.Futures_Price = futures[i].cell]]
           /\ call' = [call EXCEPT !.op = "get_spot_price",
                                   !.requests = [i \in 1..Len(futures) |->
                                                    futures[i].requests]]
    /\ pc' = "populate"
    /\ UNCHANGED <<args, environ, exit_code, effects, all_option_data>>
    /\ UNCHANGED <<calibrationVars, managerVars, bridgeVars>>

RECURSIVE populate(_, _)
\* the loop over all_option_data: the table after the columns of the
\* histories in data have been filled, in their order
populate(table, data) ==
    IF data = <<>> THEN table
    ELSE populate([i \in 1..Len(table) |->
                      set_cell(table[i], data[1].symbol,
                               option_cell(data[1].price_data, table[i].timestamp))],
                  Tail(data))

\* the option columns are filled from the histories fetched before
PopulateOptions ==
    /\ pc = "populate"
    /\ output_table' = populate(output_table, all_option_data)
    /\ pc' = "to_csv"
    /\ call' = [call EXCEPT !.op = "populate"]
    /\ UNCHANGED <<args, environ, exit_code, effects, all_option_data>>
    /\ UNCHANGED <<calibrationVars, managerVars, bridgeVars>>

\* df.to_csv(output_path, index=False, lineterminator='\n'); return df
SaveOutput ==
    /\ pc = "to_csv"
    /\ Does("to_csv")
    /\ pc' = "summary"
    /\ call' = [call EXCEPT !.op = "run_data_pull"]
    /\ UNCHANGED <<args, environ, exit_code, all_option_data, output_table>>
    /\ UNCHANGED <<calibrationVars, managerVars, bridgeVars>>

NextPull ==
    \/ IdentifyMonthlyOptions
    \/ RollScheduleIterate
    \/ SkipEarlyRoll
    \/ \E client \in PullClients : ProcessRoll(client)
    \/ ReturnSelected
    \/ CheckSelected
    \/ \E histories \in [1..Len(selected_options) -> SUBSET HistoryDates],
          price_column \in PriceColumns, raises \in BOOLEAN :
           FetchOptionHistories(histories, price_column, raises)
    \/ BuildTable
    \/ \E feed \in FuturesFeeds : FetchFuturesPrices(feed)
    \/ PopulateOptions
    \/ SaveOutput
    \/ \E raises \in BOOLEAN : PrintSummary(raises)
    \/ TopLevelHandler

SpecPull == InitPull /\ [][NextPull]_vars

\* the records of a history dated within the requested range
InRange(price_data) ==
    SelectSeq(price_data, LAMBDA row : row.date \in start_date..end_date)

\* C21: outside the range of the exact target format, the rows of the table
\* that is written are the trading days of the requested range in ascending
\* order, once each, whatever histories were fetched; an option cell is
\* filled only in the row of a day that has a record in the history of that
\* option, and the records dated outside the range change no cell
TableCoversRange ==
    pc = "to_csv" =>
        LET days == Sorted({n \in start_date..end_date : is_trading_day(n)})
        IN /\ Len(output_table) = Len(days)
           /\ \A i \in 1..Len(output_table) :
                  /\ output_table[i].timestamp = strftime_mdy(days[i])
                  /\ \A k \in 1..Len(all_option_data) :
                         LET cell == output_table[i].options[all_option_data[k].symbol]
                             price_data == all_option_data[k].price_data
                         IN /\ cell # <<>> =>
                                   \E j \in 1..Len(price_data) :
                                       /\ price_data[j].date = days[i]
                                       /\ DOMAIN price_data[j] \cap {"close", "price"} # {}
                                       /\ cell = price_of_row(price_data[j])
                            /\ cell = option_cell(InRange(price_data),
                                                  output_table[i].timestamp)

\* a table of several rows with a filled and an empty cell in the column of
\* an option whose history has records before, within and after the range
FilledFromRangeOnly ==
    /\ pc = "to_csv"
    /\ Len(output_table) > 2
    /\ Len(all_option_data) = 1
    /\ {all_option_data[1].price_data[j].date :
            j \in 1..Len(all_option_data[1].price_data)} = HistoryDates
    /\ \E i \in 1..Len(output_table) :
           output_table[i].options[all_option_data[1].symbol] # <<>>
    /\ \E i \in 1..Len(output_table) :
           output_table[i].options[all_option_data[1].symbol] = <<>>

\* the first request of every day is for the front-month contract of the day
FirstRequestIsFrontMonth ==
    pc = "populate" =>
        \A i \in 1..Len(call.dates) :
            /\ call.requests[i] # <<>>
            /\ call.requests[i][1].underlying =
                   get_front_month_contract(root_symbol, call.dates[i])
            /\ call.requests[i][1].start_date = call.dates[i]

\* C22: for each day of the table the price of the front-month contract of
\* that day is requested first, and when that request raises an exception
\* or is answered without a row, a second request with the root of --symbol
\* is sent before the cell of Futures_Price is filled or left empty
RetriesWithRoot ==
    /\ FirstRequestIsFrontMonth
    /\ pc = "populate" =>
           \A i \in 1..Len(call.dates) :
               call.requests[i][1].outcome \in {"error", "empty"} =>
                   /\ Len(call.requests[i]) >= 2
                   /\ call.requests[i][2].underlying = args.symbol

\* the steps of run_data_pull after the check of selected_options
AfterCheckSelected ==
    {"fetch_option_history", "build_table", "futures_prices", "populate", "to_csv",
     "summary"}

====
